---- MODULE Spec2Model ----
(***************************************************************************)
(* Model of the graph builder of json-ld-explorer (class JSONLDProcessor): *)
(* the constructor flattens a JSON document, then walks the flattened      *)
(* entities depth first, registering nodes in nodeMap and pushing links.   *)
(*                                                                         *)
(* JSON values are records tagged by k:                                    *)
(*   [k |-> "undef"]  (a missing property)   [k |-> "null"]                *)
(*   [k |-> "str", s |-> <<chars>>]          [k |-> "num", n |-> Int]      *)
(*   [k |-> "bool", b |-> BOOLEAN]           [k |-> "arr", a |-> <<vals>>] *)
(*   [k |-> "obj", o |-> << [key |-> <<chars>>, val |-> value], ... >>]    *)
(* Strings are sequences of one-character strings, so that the string      *)
(* operations of the code (template concatenation, replace, trim,          *)
(* startsWith) are computed and not assumed.                               *)
(***************************************************************************)
EXTENDS Integers, Sequences, FiniteSets, TLC

VARIABLES doc, data, dataIdx, nodeMap, links, stack, pc, linkOrigin, synthesized,
          graph, build, firstBuild,
          adjacencyList, engineNodeMap, analytics, epc,
          communities, improved, cursor, centrality, iteration

\* the fields of the processor, the call stack and the record of its calls
builderVars == <<doc, data, dataIdx, nodeMap, links, stack, pc, linkOrigin, synthesized>>

\* the graph handed out by getGraph, and the result of an earlier build
buildVars == <<graph, build, firstBuild>>

\* the locals of a running detectCommunities (the labels, the flag of the
\* pass and the position in nodes.forEach) and of a running
\* calculateEigenvectorCentrality (the scores and the loop counter)
stepVars == <<communities, improved, cursor, centrality, iteration>>

\* the fields of the analytics engine, its report and its position
engineVars == <<adjacencyList, engineNodeMap, analytics, epc, stepVars>>

vars == <<builderVars, buildVars, engineVars>>

(***************************************************************************)
(* JSON value constructors                                                 *)
(***************************************************************************)
Undef == [k |-> "undef"]
Null == [k |-> "null"]
JStr(s) == [k |-> "str", s |-> s]
JNum(n) == [k |-> "num", n |-> n]
JBool(b) == [k |-> "bool", b |-> b]
JArr(a) == [k |-> "arr", a |-> a]
JObj(o) == [k |-> "obj", o |-> o]
P(key, val) == [key |-> key, val |-> val]

(***************************************************************************)
(* Character classes and string primitives                                 *)
(***************************************************************************)
Lower == {"a","b","c","d","e","f","g","h","i","j","k","l","m",
          "n","o","p","q","r","s","t","u","v","w","x","y","z"}
Upper == {"A","B","C","D","E","F","G","H","I","J","K","L","M",
          "N","O","P","Q","R","S","T","U","V","W","X","Y","Z"}
Digits == {"0","1","2","3","4","5","6","7","8","9"}
DigitChar == <<"0","1","2","3","4","5","6","7","8","9">>

\* String.prototype.startsWith
StartsWith(s, p) == Len(s) >= Len(p) /\ SubSeq(s, 1, Len(p)) = p

RECURSIVE TrimLeft(_)
TrimLeft(s) == IF s # <<>> /\ Head(s) = " " THEN TrimLeft(Tail(s)) ELSE s

RECURSIVE TrimRight(_)
TrimRight(s) ==
  IF s # <<>> /\ s[Len(s)] = " " THEN TrimRight(SubSeq(s, 1, Len(s) - 1)) ELSE s

\* String.prototype.trim
Trim(s) == TrimRight(TrimLeft(s))

\* decimal digits of a natural number
RECURSIVE NatToStr(_)
NatToStr(n) ==
  IF n < 10 THEN <<DigitChar[n + 1]>>
  ELSE NatToStr(n \div 10) \o <<DigitChar[(n % 10) + 1]>>

\* String(n) / `${n}` for an integer
NumToStr(n) == IF n < 0 THEN <<"-">> \o NatToStr(0 - n) ELSE NatToStr(n)

BoolToStr(b) == IF b THEN <<"t","r","u","e">> ELSE <<"f","a","l","s","e">>

\* string literals of the code
S_atId == <<"@","i","d">>
S_id == <<"i","d">>
S_atType == <<"@","t","y","p","e">>
S_type == <<"t","y","p","e">>
S_atGraph == <<"@","g","r","a","p","h">>
S_atValue == <<"@","v","a","l","u","e">>
S_contains == <<"c","o","n","t","a","i","n","s">>
S_Unknown == <<"U","n","k","n","o","w","n">>
S_Reference == <<"R","e","f","e","r","e","n","c","e">>
S_Value == <<"V","a","l","u","e">>
S_Number == <<"N","u","m","b","e","r">>
S_Boolean == <<"B","o","o","l","e","a","n">>
S_null == <<"n","u","l","l">>
S_undefined == <<"u","n","d","e","f","i","n","e","d">>
S_objectObject == <<"[","o","b","j","e","c","t"," ","O","b","j","e","c","t","]">>
S_Entity == <<"E","n","t","i","t","y">>
S_UnnamedEntity == <<"U","n","n","a","m","e","d"," ","E","n","t","i","t","y">>
S_ArrayValue == <<"A","r","r","a","y"," ","V","a","l","u","e">>
S_UnknownValue == <<"U","n","k","n","o","w","n"," ","V","a","l","u","e">>
S_givenName == <<"g","i","v","e","n","N","a","m","e">>
S_familyName == <<"f","a","m","i","l","y","N","a","m","e">>
S_firstName == <<"f","i","r","s","t","N","a","m","e">>
S_lastName == <<"l","a","s","t","N","a","m","e">>
S_http == <<"h","t","t","p",":","/","/">>
S_https == <<"h","t","t","p","s",":","/","/">>

(***************************************************************************)
(* JavaScript semantics of values                                          *)
(***************************************************************************)
\* ToBoolean
Truthy(v) ==
  CASE v.k = "undef" -> FALSE
    [] v.k = "null" -> FALSE
    [] v.k = "str" -> v.s # <<>>
    [] v.k = "num" -> v.n # 0
    [] v.k = "bool" -> v.b
    [] OTHER -> TRUE

\* typeof v === 'object' (true of null, arrays and objects)
TypeofObject(v) == v.k \in {"null", "arr", "obj"}

RECURSIVE GetFrom(_, _, _)
GetFrom(o, key, i) ==
  IF i > Len(o) THEN Undef
  ELSE IF o[i].key = key THEN o[i].val
  ELSE GetFrom(o, key, i + 1)

\* property read v[key]; undefined on arrays and primitives for the
\* (non-index, non-builtin) keys the code reads
Get(v, key) == IF v.k = "obj" THEN GetFrom(v.o, key, 1) ELSE Undef

\* a || b
Or(a, b) == IF Truthy(a) THEN a ELSE b


\* String(v) / template interpolation of a value
RECURSIVE ToStr(_)
RECURSIVE JoinFrom(_, _)
JoinFrom(a, i) ==
  IF i > Len(a) THEN <<>>
  ELSE (IF a[i].k \in {"null", "undef"} THEN <<>> ELSE ToStr(a[i]))
       \o (IF i < Len(a) THEN <<",">> ELSE <<>>)
       \o JoinFrom(a, i + 1)
ToStr(v) ==
  CASE v.k = "str" -> v.s
    [] v.k = "num" -> NumToStr(v.n)
    [] v.k = "bool" -> BoolToStr(v.b)
    [] v.k = "null" -> S_null
    [] v.k = "undef" -> S_undefined
    [] v.k = "arr" -> JoinFrom(v.a, 1)
    [] OTHER -> S_objectObject

(***************************************************************************)
(* flattenData                                                             *)
(***************************************************************************)
RECURSIVE flattenData(_)
RECURSIVE FlatMapFrom(_, _)
RECURSIVE FlattenValuesFrom(_, _)

\* data.flatMap(item => this.flattenData(item))
FlatMapFrom(a, i) ==
  IF i > Len(a) THEN <<>> ELSE flattenData(a[i]) \o FlatMapFrom(a, i + 1)

\* the forEach over Object.values(data) that extends result
FlattenValuesFrom(o, i) ==
  IF i > Len(o) THEN <<>>
  ELSE LET value == o[i].val
           here == IF value.k = "arr" THEN flattenData(value)
                   ELSE IF value.k = "obj"
                           /\ (Truthy(Get(value, S_atType)) \/ Truthy(Get(value, S_type))
                               \/ Truthy(Get(value, S_atId)) \/ Truthy(Get(value, S_id)))
                        THEN flattenData(value)
                   ELSE <<>>
       IN here \o FlattenValuesFrom(o, i + 1)

flattenData(d) ==
  IF ~Truthy(d) THEN <<>>
  ELSE IF d.k = "arr" THEN FlatMapFrom(d.a, 1)
  ELSE IF Truthy(Get(d, S_atGraph)) /\ Get(d, S_atGraph).k = "arr"
       THEN flattenData(Get(d, S_atGraph))
  ELSE IF d.k = "obj" THEN <<d>> \o FlattenValuesFrom(d.o, 1)
  ELSE <<d>>

(***************************************************************************)
(* Regular-expression replacements used by the naming helpers              *)
(***************************************************************************)
LowerSeq == <<"a","b","c","d","e","f","g","h","i","j","k","l","m",
              "n","o","p","q","r","s","t","u","v","w","x","y","z">>
UpperSeq == <<"A","B","C","D","E","F","G","H","I","J","K","L","M",
              "N","O","P","Q","R","S","T","U","V","W","X","Y","Z">>

ToUpperChar(c) ==
  IF c \in Lower THEN UpperSeq[CHOOSE i \in 1..26 : LowerSeq[i] = c] ELSE c
ToLowerChar(c) ==
  IF c \in Upper THEN LowerSeq[CHOOSE i \in 1..26 : UpperSeq[i] = c] ELSE c

\* String.prototype.toLowerCase
ToLowerCase(s) == [i \in 1..Len(s) |-> ToLowerChar(s[i])]

\* the class \w
IsWord(c) == c \in Lower \cup Upper \cup Digits \cup {"_"}

\* .replace(/[-_]/g, ' ')
DashesToSpaces(s) == [i \in 1..Len(s) |-> IF s[i] \in {"-", "_"} THEN " " ELSE s[i]]

\* .replace(/([a-z])([A-Z])/g, '$1 $2')
RECURSIVE CamelSplit(_)
CamelSplit(s) ==
  IF Len(s) < 2 THEN s
  ELSE IF s[1] \in Lower /\ s[2] \in Upper
       THEN <<s[1], " ">> \o CamelSplit(Tail(s))
       ELSE <<s[1]>> \o CamelSplit(Tail(s))

\* .replace(/\b\w/g, l => l.toUpperCase())
Capitalize(s) ==
  [i \in 1..Len(s) |->
     IF IsWord(s[i]) /\ (i = 1 \/ ~IsWord(s[i - 1])) THEN ToUpperChar(s[i]) ELSE s[i]]

\* index of the last character of s that lies in cs, 0 if none
LastIndexIn(s, cs) ==
  IF \E i \in 1..Len(s) : s[i] \in cs
  THEN CHOOSE i \in 1..Len(s) : s[i] \in cs /\ \A j \in (i + 1)..Len(s) : s[j] \notin cs
  ELSE 0

\* index of the first character of s that lies in cs, Len(s) + 1 if none
FirstIndexIn(s, cs) ==
  IF \E i \in 1..Len(s) : s[i] \in cs
  THEN CHOOSE i \in 1..Len(s) : s[i] \in cs /\ \A j \in 1..(i - 1) : s[j] \notin cs
  ELSE Len(s) + 1

\* .replace(/^.*[cs]/, ''): greedy, drops everything up to the last match
StripThroughLast(s, cs) == SubSeq(s, LastIndexIn(s, cs) + 1, Len(s))

\* s.split('/').filter(Boolean) followed by taking the last segment
\* (<<>> stands for undefined: there is no non-empty segment)
RECURSIVE LastSegment(_)
LastSegment(s) ==
  IF s # <<>> /\ s[Len(s)] = "/" THEN LastSegment(SubSeq(s, 1, Len(s) - 1))
  ELSE StripThroughLast(s, {"/"})

(***************************************************************************)
(* new URL(url) without a base.  Modelled for strings over letters, digits *)
(* and the characters _ - . : / and space, without "." or ".." path        *)
(* segments, credentials or ports: there the parser keeps the path as      *)
(* written and decodeURIComponent(encode(segment)) is the segment itself.  *)
(***************************************************************************)
SchemeChars == Lower \cup Upper \cup Digits \cup {"+", "-", "."}
HostChars == Lower \cup Upper \cup Digits \cup {"-", ".", "_"}
SpecialSchemes == {<<"h","t","t","p">>, <<"h","t","t","p","s">>, <<"f","t","p">>,
                   <<"w","s">>, <<"w","s","s">>}

RECURSIVE StripSlashes(_)
StripSlashes(s) == IF s # <<>> /\ Head(s) = "/" THEN StripSlashes(Tail(s)) ELSE s

UrlFailure == [ok |-> FALSE, pathname |-> <<>>, hostname |-> <<>>]

\* the string up to its query or fragment
BeforeQuery(s) == SubSeq(s, 1, FirstIndexIn(s, {"?", "#"}) - 1)

\* a special scheme: r is what follows the scheme and its slashes; the host
\* ends at the first slash and must not be empty
ParseSpecial(r, slash) ==
  IF slash = 1 \/ \E i \in 1..(slash - 1) : r[i] \notin HostChars
  THEN UrlFailure
  ELSE [ok |-> TRUE,
        pathname |-> IF slash > Len(r) THEN <<"/">> ELSE SubSeq(r, slash, Len(r)),
        hostname |-> ToLowerCase(SubSeq(r, 1, slash - 1))]

\* any other scheme followed by //: r is what follows the two slashes
ParseAuthority(r, slash) ==
  [ok |-> TRUE, pathname |-> SubSeq(r, slash, Len(r)), hostname |-> SubSeq(r, 1, slash - 1)]

\* rest is what follows "scheme:"
ParseAfterScheme(scheme, rest) ==
  IF scheme \in SpecialSchemes
  THEN ParseSpecial(StripSlashes(rest), FirstIndexIn(StripSlashes(rest), {"/"}))
  ELSE IF StartsWith(rest, <<"/", "/">>)
  THEN ParseAuthority(SubSeq(rest, 3, Len(rest)),
                      FirstIndexIn(SubSeq(rest, 3, Len(rest)), {"/"}))
  ELSE [ok |-> TRUE, pathname |-> rest, hostname |-> <<>>]

\* s is the trimmed input, colon the index of its first colon
ParseWithColon(s, colon) ==
  IF /\ colon <= Len(s)
     /\ colon > 1
     /\ s[1] \in Lower \cup Upper
     /\ \A i \in 2..(colon - 1) : s[i] \in SchemeChars
  THEN ParseAfterScheme(ToLowerCase(SubSeq(s, 1, colon - 1)),
                        BeforeQuery(SubSeq(s, colon + 1, Len(s))))
  ELSE UrlFailure

ParseUrl(url) == ParseWithColon(Trim(url), FirstIndexIn(Trim(url), {":"}))

\* a || b for strings
OrElse(a, b) == IF a # <<>> THEN a ELSE b

\* the clean-up of a path segment or identifier
CleanName(s) == Trim(Capitalize(CamelSplit(DashesToSpaces(s))))

\* hostname.replace(/^www\./, '')
StripWww(hostname) ==
  IF StartsWith(hostname, <<"w","w","w",".">>)
  THEN SubSeq(hostname, 5, Len(hostname))
  ELSE hostname

\* the try block of extractNameFromUrl, for a URL that parsed
NameOfUrl(u, lastSegment) ==
  IF lastSegment # <<>> THEN CleanName(lastSegment) ELSE StripWww(u.hostname)

NameOfParsed(url, u) ==
  IF u.ok THEN NameOfUrl(u, LastSegment(u.pathname))
  ELSE OrElse(CleanName(StripThroughLast(url, {"#", "/"})), url)

\* extractNameFromUrl, for a string argument
extractNameFromUrl(url) ==
  IF url = <<>> THEN S_Unknown ELSE NameOfParsed(url, ParseUrl(url))

\* makeReadableType
makeReadableType(type) ==
  IF type = <<>> THEN S_Entity
  ELSE OrElse(Trim(Capitalize(CamelSplit(StripThroughLast(type, {"#", "/", ":"})))), S_Entity)

(***************************************************************************)
(* extractName.  The result is [threw, name]: threw is TRUE when the code  *)
(* raises a TypeError (reading a property of null).                        *)
(***************************************************************************)
nameFieldKeys == <<
  <<"n","a","m","e">>,
  <<"t","i","t","l","e">>,
  <<"l","a","b","e","l">>,
  <<"r","d","f","s",":","l","a","b","e","l">>,
  <<"s","c","h","e","m","a",":","n","a","m","e">>,
  <<"f","o","a","f",":","n","a","m","e">>,
  <<"d","c",":","t","i","t","l","e">>,
  <<"d","c","t","e","r","m","s",":","t","i","t","l","e">>,
  <<"g","i","v","e","n","N","a","m","e">>,
  <<"f","a","m","i","l","y","N","a","m","e">>,
  <<"f","i","r","s","t","N","a","m","e">>,
  <<"l","a","s","t","N","a","m","e">>,
  <<"c","o","m","p","a","n","y","N","a","m","e">>,
  <<"o","r","g","a","n","i","z","a","t","i","o","n","N","a","m","e">>,
  <<"j","o","b","T","i","t","l","e">>,
  <<"r","o","l","e","N","a","m","e">>,
  <<"d","e","s","c","r","i","p","t","i","o","n">>,
  <<"r","d","f","s",":","c","o","m","m","e","n","t">>
  >>

Ret(name) == [r |-> "ret", name |-> name]
NoName == [r |-> "none", name |-> <<>>]
Throws == [r |-> "throw", name |-> <<>>]

\* the first of two results that returns or throws
Prefer(r, later) == IF r.r # "none" THEN r ELSE later

\* a string that is returned trimmed if it is not blank
RetIfNotBlank(trimmed) == IF trimmed # <<>> THEN Ret(trimmed) ELSE NoName

\* Array.isArray(field) && field.length > 0, with its first element
NameFromFirst(firstValue) ==
  IF firstValue.k = "str" THEN Ret(Trim(firstValue.s))
  ELSE IF TypeofObject(firstValue)
       THEN IF firstValue.k = "null" THEN Throws
            ELSE IF Truthy(Get(firstValue, S_atValue))
                 THEN Ret(Trim(ToStr(Get(firstValue, S_atValue))))
                 ELSE NoName
  ELSE NoName

\* one iteration of the loop over nameFields
NameFromField(field) ==
  IF ~Truthy(field) THEN NoName
  ELSE IF field.k = "str" /\ Trim(field.s) # <<>> THEN Ret(Trim(field.s))
  ELSE IF TypeofObject(field) /\ Truthy(Get(field, S_atValue))
       THEN Ret(Trim(ToStr(Get(field, S_atValue))))
  ELSE IF field.k = "arr" /\ Len(field.a) > 0 THEN NameFromFirst(field.a[1])
  ELSE NoName

RECURSIVE NameFieldsFrom(_, _)
NameFieldsFrom(entity, i) ==
  IF i > Len(nameFieldKeys) THEN NoName
  ELSE Prefer(NameFromField(Get(entity, nameFieldKeys[i])), NameFieldsFrom(entity, i + 1))

\* s.includes(sub)
Includes(s, sub) ==
  \E i \in 1..(Len(s) - Len(sub) + 1) : SubSeq(s, i, i + Len(sub) - 1) = sub

\* the test of one entry in the loop over Object.entries
NameLike(key, value) ==
  IF /\ \/ Includes(key, <<"n","a","m","e">>)
        \/ Includes(key, <<"t","i","t","l","e">>)
        \/ Includes(key, <<"l","a","b","e","l">>)
     /\ value.k = "str"
  THEN RetIfNotBlank(Trim(value.s))
  ELSE NoName

\* the loop over Object.entries for keys that look like a name
RECURSIVE NameLikeFrom(_, _)
NameLikeFrom(o, i) ==
  IF i > Len(o) THEN NoName
  ELSE Prefer(NameLike(ToLowerCase(o[i].key), o[i].val), NameLikeFrom(o, i + 1))

\* `${firstName} ${lastName}`.trim() when both are truthy
CombinedName(firstName, lastName) ==
  IF Truthy(firstName) /\ Truthy(lastName)
  THEN Ret(Trim(ToStr(firstName) \o <<" ">> \o ToStr(lastName)))
  ELSE NoName

\* the name extracted from a string id, when it differs from the id
NameFromExtracted(id, extracted) ==
  IF extracted # <<>> /\ extracted # id /\ Len(extracted) > 1 THEN Ret(extracted) ELSE NoName

NameFromId(id) ==
  IF Truthy(id) /\ id.k = "str" THEN NameFromExtracted(id.s, extractNameFromUrl(id.s))
  ELSE NoName

\* the readable type, or 'Unnamed Entity'
NameFromType(type) ==
  IF Truthy(type) /\ type.k = "str" THEN Ret(makeReadableType(type.s))
  ELSE IF Truthy(type) /\ type.k = "arr" /\ Len(type.a) > 0
       THEN Ret(makeReadableType(ToStr(type.a[1])))
  ELSE Ret(S_UnnamedEntity)

\* extractName for a (non-array) object
extractNameOfObject(entity) ==
  Prefer(NameFieldsFrom(entity, 1),
  Prefer(CombinedName(Or(Get(entity, S_givenName), Get(entity, S_firstName)),
                      Or(Get(entity, S_familyName), Get(entity, S_lastName))),
  Prefer(NameLikeFrom(entity.o, 1),
  Prefer(NameFromId(Or(Get(entity, S_atId), Get(entity, S_id))),
         NameFromType(Or(Get(entity, S_atType), Get(entity, S_type)))))))

\* extractName
RECURSIVE extractName(_)
extractName(entity) ==
  IF entity.k = "str" THEN Ret(extractNameFromUrl(entity.s))
  ELSE IF entity.k = "arr"
       THEN IF Len(entity.a) > 0 THEN extractName(entity.a[1]) ELSE Ret(S_ArrayValue)
  ELSE IF entity.k # "obj" THEN Ret(OrElse(ToStr(entity), S_UnknownValue))
  ELSE extractNameOfObject(entity)

(***************************************************************************)
(* The node map (a JavaScript Map: insertion ordered, one entry per key)   *)
(* and the records of the graph.  Weights are in tenths: 10 is 1.0, 5 is   *)
(* 0.5, 3 is 0.3 and 2 is 0.2.  The cosmetic fields size, group and color  *)
(* of a node are left out.                                                 *)
(***************************************************************************)
\* variant of GraphNode: the node is named by its id
GraphNodeNamedById(id, name, type, properties) ==
  [id |-> id, name |-> id, type |-> type, properties |-> properties]

GraphNode(id, name, type, properties) ==
  [id |-> id, name |-> name, type |-> type, properties |-> properties]

GraphLink(source, target, type, weight) ==
  [source |-> source, target |-> target, type |-> type, weight |-> weight]

\* variant of MapHas: no key is ever found
MapHasNever(m, id) == FALSE

\* nodeMap.has(id)
MapHas(m, id) == \E i \in 1..Len(m) : m[i].id = id

\* nodeMap.get(id), for a registered id
MapGet(m, id) == m[CHOOSE i \in 1..Len(m) : m[i].id = id]

\* variant of MapSet: every call adds an entry, also for a key already there
MapSetAlwaysAppends(m, node) == Append(m, node)

\* nodeMap.set(id, node): replaces the value of an existing key in place
MapSet(m, node) ==
  IF MapHas(m, node.id)
  THEN [i \in 1..Len(m) |-> IF m[i].id = node.id THEN node ELSE m[i]]
  ELSE Append(m, node)

MapKeys(m) == {m[i].id : i \in 1..Len(m)}

(***************************************************************************)
(* generateId: `node_${Date.now()}_${Math.random()...}`.  The clock and    *)
(* the random source are inputs of the build, so the result is any one of  *)
(* the MaxSyn identifiers below; nothing in the code compares it with the  *)
(* identifiers handed out before.                                          *)
(***************************************************************************)
MaxSyn == 2

SynId(i) == <<"n","o","d","e","_">> \o NatToStr(i)

SynIds == {SynId(i) : i \in 1..MaxSyn}

(***************************************************************************)
(* The pending calls of the depth-first traversal, innermost first.        *)
(*   E: processEntity(v, src)      (src = <<>> stands for no parentId)     *)
(*   R: processRelationshipValue(src, key, v)                              *)
(***************************************************************************)
NoParent == <<>>
ETask(v, parentId) == [t |-> "E", src |-> parentId, key |-> <<>>, v |-> v]
RTask(sourceId, key, v) == [t |-> "R", src |-> sourceId, key |-> key, v |-> v]

\* the calls of processRelationships(entity, sourceId), in order
RECURSIVE RelTasksFrom(_, _, _)
RelTasksFrom(o, sourceId, i) ==
  IF i > Len(o) THEN <<>>
  ELSE LET key == o[i].key
           value == o[i].val
           here == IF StartsWith(key, <<"@">>) THEN <<>>
                   ELSE IF value.k = "arr"
                        THEN [j \in 1..Len(value.a) |-> RTask(sourceId, key, value.a[j])]
                        ELSE <<RTask(sourceId, key, value)>>
       IN here \o RelTasksFrom(o, sourceId, i + 1)

processRelationships(entity, sourceId) == RelTasksFrom(entity.o, sourceId, 1)

\* entity['@id'] || entity.id; the identifiers in the documents of the
\* model are strings (or missing, null or empty)
ExplicitId(v) == Or(Get(v, S_atId), Get(v, S_id))

\* entity['@type'] || entity.type || 'Unknown'
TypeOf(v) == Or(Or(Get(v, S_atType), Get(v, S_type)), JStr(S_Unknown))

\* where a link came from: the value it was emitted for
Origin(key, v, contains) == [key |-> key, v |-> v, contains |-> contains]

(***************************************************************************)
(* Input documents                                                         *)
(***************************************************************************)
\* the documents of the model, as JSON:
\*   1  null
\*   2  []
\*   3  {}
\*   4  5
\*   5  "s"
\*   6  [1,"a",null]
\*   7  {"@id":"p1","child":{"name":"c1"}}
\*   8  {"@id":"x","tag":"http://e.org/a","note":"hello"}
\*   9  [{"@id":"a","name":"Ann","@type":"Person"},{"@id":"b","knows":{"@id":"a"}}]
\*  10  [{"@id":"b","knows":{"@id":"a"}},{"@id":"a","name":"Ann","@type":"Person"}]
\*  11  {"@graph":[{"@id":"a","p":"x"},{"@id":"b","p":"x"}]}
\*  12  {"@id":"a","p":["x y","x_y"],"q":[1,"1",true]}
\*  13  {"name":[null]}
\*  14  {"@id":"p1","child":{"@type":"T","name":"c1"}}
\*  15  [{"@id":"a","u":"http://e.org"},{"@id":"b","v":"http://e.org","w":"https://e.org/x"}]
\*  16  {"@id":"a","knows":{"@id":"b","knows":{"@id":"a"}}}
\*  17  [{"@id":"a","p":"x"},{"@id":"a_p_x","name":"E"}]
\*  18  [{"@id":"a_b","c":"d"},{"@id":"a","b_c":"d"}]
\*  19  [{"name":"x"},{"name":"y"}]
\*  20  {"@id":"a","e":"","w":" ","n":null,"o":{},"@context":"http://c.org","z":0,"f":false}
\*  21  {"@id":"a","m":[[{"name":"n"}],["http://e.org"]]}
\*  22  {"@id":"node_1","child":{"k":1}}
\*  23  {"id":"a","type":"T","self":{"id":"a"}}
\*  24  [{"@id":"a","u":"http://e.org/x"},{"@id":"http://e.org/x","@type":"Page"}]
\*  25  {"@graph":[]}
\*  26  [[{"@id":"a"}],[{"@id":"b"}]]
\*  27  {"givenName":"Al","familyName":"Bo"}
\*  28  {"@id":"http://e.org/some-thing","@type":["T","U"]}
\*  29  {"@id":"p1","children":[{"name":"c1"}]}
\*  30  {"@id":"a","knows":{"@id":"b"},"child":{"k":1},"u":"http://e.org","s":"x"}
\*  31  {"@id":"a","child":{"knows":{"@id":"b"}},"u":"http://e.org","s":"x","n":1,"t":true}
\*  32  [{"@id":"http://e.org/x","@type":"Page"},{"@id":"a","u":"http://e.org/x"}]
\*  33  {"@id":"a","@context":["http://c.org",{"ex":"http://e.org/"}]}
\*  34  {"@id":"a","knows":{"@id":"b","r":"x"}}
Docs == <<
  Null,
  JArr(<<>>),
  JObj(<<>>),
  JNum(5),
  JStr(<<"s">>),
  JArr(<<JNum(1), JStr(<<"a">>), Null>>),
  JObj(<<P(<<"@","i","d">>, JStr(<<"p","1">>)), P(<<"c","h","i","l","d">>, JObj(<<P(<<"n","a","m","e">>, JStr(<<"c","1">>))>>))>>),
  JObj(<<P(<<"@","i","d">>, JStr(<<"x">>)), P(<<"t","a","g">>, JStr(<<"h","t","t","p",":","/","/","e",".","o","r","g","/","a">>)), P(<<"n","o","t","e">>, JStr(<<"h","e","l","l","o">>))>>),
  JArr(<<JObj(<<P(<<"@","i","d">>, JStr(<<"a">>)), P(<<"n","a","m","e">>, JStr(<<"A","n","n">>)), P(<<"@","t","y","p","e">>, JStr(<<"P","e","r","s","o","n">>))>>), JObj(<<P(<<"@","i","d">>, JStr(<<"b">>)), P(<<"k","n","o","w","s">>, JObj(<<P(<<"@","i","d">>, JStr(<<"a">>))>>))>>)>>),
  JArr(<<JObj(<<P(<<"@","i","d">>, JStr(<<"b">>)), P(<<"k","n","o","w","s">>, JObj(<<P(<<"@","i","d">>, JStr(<<"a">>))>>))>>), JObj(<<P(<<"@","i","d">>, JStr(<<"a">>)), P(<<"n","a","m","e">>, JStr(<<"A","n","n">>)), P(<<"@","t","y","p","e">>, JStr(<<"P","e","r","s","o","n">>))>>)>>),
  JObj(<<P(<<"@","g","r","a","p","h">>, JArr(<<JObj(<<P(<<"@","i","d">>, JStr(<<"a">>)), P(<<"p">>, JStr(<<"x">>))>>), JObj(<<P(<<"@","i","d">>, JStr(<<"b">>)), P(<<"p">>, JStr(<<"x">>))>>)>>))>>),
  JObj(<<P(<<"@","i","d">>, JStr(<<"a">>)), P(<<"p">>, JArr(<<JStr(<<"x"," ","y">>), JStr(<<"x","_","y">>)>>)), P(<<"q">>, JArr(<<JNum(1), JStr(<<"1">>), JBool(TRUE)>>))>>),
  JObj(<<P(<<"n","a","m","e">>, JArr(<<Null>>))>>),
  JObj(<<P(<<"@","i","d">>, JStr(<<"p","1">>)), P(<<"c","h","i","l","d">>, JObj(<<P(<<"@","t","y","p","e">>, JStr(<<"T">>)), P(<<"n","a","m","e">>, JStr(<<"c","1">>))>>))>>),
  JArr(<<JObj(<<P(<<"@","i","d">>, JStr(<<"a">>)), P(<<"u">>, JStr(<<"h","t","t","p",":","/","/","e",".","o","r","g">>))>>), JObj(<<P(<<"@","i","d">>, JStr(<<"b">>)), P(<<"v">>, JStr(<<"h","t","t","p",":","/","/","e",".","o","r","g">>)), P(<<"w">>, JStr(<<"h","t","t","p","s",":","/","/","e",".","o","r","g","/","x">>))>>)>>),
  JObj(<<P(<<"@","i","d">>, JStr(<<"a">>)), P(<<"k","n","o","w","s">>, JObj(<<P(<<"@","i","d">>, JStr(<<"b">>)), P(<<"k","n","o","w","s">>, JObj(<<P(<<"@","i","d">>, JStr(<<"a">>))>>))>>))>>),
  JArr(<<JObj(<<P(<<"@","i","d">>, JStr(<<"a">>)), P(<<"p">>, JStr(<<"x">>))>>), JObj(<<P(<<"@","i","d">>, JStr(<<"a","_","p","_","x">>)), P(<<"n","a","m","e">>, JStr(<<"E">>))>>)>>),
  JArr(<<JObj(<<P(<<"@","i","d">>, JStr(<<"a","_","b">>)), P(<<"c">>, JStr(<<"d">>))>>), JObj(<<P(<<"@","i","d">>, JStr(<<"a">>)), P(<<"b","_","c">>, JStr(<<"d">>))>>)>>),
  JArr(<<JObj(<<P(<<"n","a","m","e">>, JStr(<<"x">>))>>), JObj(<<P(<<"n","a","m","e">>, JStr(<<"y">>))>>)>>),
  JObj(<<P(<<"@","i","d">>, JStr(<<"a">>)), P(<<"e">>, JStr(<<>>)), P(<<"w">>, JStr(<<" ">>)), P(<<"n">>, Null), P(<<"o">>, JObj(<<>>)), P(<<"@","c","o","n","t","e","x","t">>, JStr(<<"h","t","t","p",":","/","/","c",".","o","r","g">>)), P(<<"z">>, JNum(0)), P(<<"f">>, JBool(FALSE))>>),
  JObj(<<P(<<"@","i","d">>, JStr(<<"a">>)), P(<<"m">>, JArr(<<JArr(<<JObj(<<P(<<"n","a","m","e">>, JStr(<<"n">>))>>)>>), JArr(<<JStr(<<"h","t","t","p",":","/","/","e",".","o","r","g">>)>>)>>))>>),
  JObj(<<P(<<"@","i","d">>, JStr(<<"n","o","d","e","_","1">>)), P(<<"c","h","i","l","d">>, JObj(<<P(<<"k">>, JNum(1))>>))>>),
  JObj(<<P(<<"i","d">>, JStr(<<"a">>)), P(<<"t","y","p","e">>, JStr(<<"T">>)), P(<<"s","e","l","f">>, JObj(<<P(<<"i","d">>, JStr(<<"a">>))>>))>>),
  JArr(<<JObj(<<P(<<"@","i","d">>, JStr(<<"a">>)), P(<<"u">>, JStr(<<"h","t","t","p",":","/","/","e",".","o","r","g","/","x">>))>>), JObj(<<P(<<"@","i","d">>, JStr(<<"h","t","t","p",":","/","/","e",".","o","r","g","/","x">>)), P(<<"@","t","y","p","e">>, JStr(<<"P","a","g","e">>))>>)>>),
  JObj(<<P(<<"@","g","r","a","p","h">>, JArr(<<>>))>>),
  JArr(<<JArr(<<JObj(<<P(<<"@","i","d">>, JStr(<<"a">>))>>)>>), JArr(<<JObj(<<P(<<"@","i","d">>, JStr(<<"b">>))>>)>>)>>),
  JObj(<<P(<<"g","i","v","e","n","N","a","m","e">>, JStr(<<"A","l">>)), P(<<"f","a","m","i","l","y","N","a","m","e">>, JStr(<<"B","o">>))>>),
  JObj(<<P(<<"@","i","d">>, JStr(<<"h","t","t","p",":","/","/","e",".","o","r","g","/","s","o","m","e","-","t","h","i","n","g">>)), P(<<"@","t","y","p","e">>, JArr(<<JStr(<<"T">>), JStr(<<"U">>)>>))>>),
  JObj(<<P(<<"@","i","d">>, JStr(<<"p","1">>)), P(<<"c","h","i","l","d","r","e","n">>, JArr(<<JObj(<<P(<<"n","a","m","e">>, JStr(<<"c","1">>))>>)>>))>>),
  JObj(<<P(<<"@","i","d">>, JStr(<<"a">>)), P(<<"k","n","o","w","s">>, JObj(<<P(<<"@","i","d">>, JStr(<<"b">>))>>)), P(<<"c","h","i","l","d">>, JObj(<<P(<<"k">>, JNum(1))>>)), P(<<"u">>, JStr(<<"h","t","t","p",":","/","/","e",".","o","r","g">>)), P(<<"s">>, JStr(<<"x">>))>>),
  JObj(<<P(<<"@","i","d">>, JStr(<<"a">>)), P(<<"c","h","i","l","d">>, JObj(<<P(<<"k","n","o","w","s">>, JObj(<<P(<<"@","i","d">>, JStr(<<"b">>))>>))>>)), P(<<"u">>, JStr(<<"h","t","t","p",":","/","/","e",".","o","r","g">>)), P(<<"s">>, JStr(<<"x">>)), P(<<"n">>, JNum(1)), P(<<"t">>, JBool(TRUE))>>),
  JArr(<<JObj(<<P(<<"@","i","d">>, JStr(<<"h","t","t","p",":","/","/","e",".","o","r","g","/","x">>)), P(<<"@","t","y","p","e">>, JStr(<<"P","a","g","e">>))>>), JObj(<<P(<<"@","i","d">>, JStr(<<"a">>)), P(<<"u">>, JStr(<<"h","t","t","p",":","/","/","e",".","o","r","g","/","x">>))>>)>>),
  JObj(<<P(<<"@","i","d">>, JStr(<<"a">>)), P(<<"@","c","o","n","t","e","x","t">>, JArr(<<JStr(<<"h","t","t","p",":","/","/","c",".","o","r","g">>), JObj(<<P(<<"e","x">>, JStr(<<"h","t","t","p",":","/","/","e",".","o","r","g","/">>))>>)>>))>>),
  JObj(<<P(<<"@","i","d">>, JStr(<<"a">>)), P(<<"k","n","o","w","s">>, JObj(<<P(<<"@","i","d">>, JStr(<<"b">>)), P(<<"r">>, JStr(<<"x">>))>>))>>)
  >>

\* property values of the generated two-entity documents, as JSON:
\*   1  "x"
\*   2  "x y"
\*   3  1
\*   4  true
\*   5  null
\*   6  ""
\*   7  "http://e.org/a"
\*   8  {"@id":"a"}
\*   9  {"@id":"b","r":"x"}
\*  10  {"name":"n"}
\*  11  {}
\*  12  ["x",{"@id":"c"}]
\*  13  {"@type":"T"}
ValuePool == <<
  JStr(<<"x">>),
  JStr(<<"x"," ","y">>),
  JNum(1),
  JBool(TRUE),
  Null,
  JStr(<<>>),
  JStr(<<"h","t","t","p",":","/","/","e",".","o","r","g","/","a">>),
  JObj(<<P(<<"@","i","d">>, JStr(<<"a">>))>>),
  JObj(<<P(<<"@","i","d">>, JStr(<<"b">>)), P(<<"r">>, JStr(<<"x">>))>>),
  JObj(<<P(<<"n","a","m","e">>, JStr(<<"n">>))>>),
  JObj(<<>>),
  JArr(<<JStr(<<"x">>), JObj(<<P(<<"@","i","d">>, JStr(<<"c">>))>>)>>),
  JObj(<<P(<<"@","t","y","p","e">>, JStr(<<"T">>))>>)
  >>

\* identifiers of the generated documents; 0 stands for no @id
PoolIds == << <<"a">>, <<"b">> >>

PoolEntity(i, key, v) ==
  JObj((IF i = 0 THEN <<>> ELSE <<P(S_atId, JStr(PoolIds[i]))>>) \o <<P(key, v)>>)

\* [ {"@id": i1, "p": v1}, {"@id": i2, "q": v2} ]
TwoEntityDoc(i1, v1, i2, v2) ==
  JArr(<<PoolEntity(i1, <<"p">>, ValuePool[v1]), PoolEntity(i2, <<"q">>, ValuePool[v2])>>)

(***************************************************************************)
(* Steps of processRelationshipValue                                       *)
(***************************************************************************)
WeightReference == 10
WeightUrl == 5
WeightString == 3
\* variant of WeightPrimitive: the weight of a string leaf
WeightPrimitiveAsString == WeightString
WeightPrimitive == 2

\* variant of PushLink: unshift instead of push
PushLinkInFront(ls, link) == <<link>> \o ls

\* this.links.push(link)
PushLink(ls, link) == Append(ls, link)

IsUrl(s) == StartsWith(s, S_http) \/ StartsWith(s, S_https)

\* .replace(/[^a-zA-Z0-9_-]/g, '_')
Sanitize(s) ==
  [i \in 1..Len(s) |->
     IF s[i] \in Lower \cup Upper \cup Digits \cup {"_", "-"} THEN s[i] ELSE "_"]

\* `${sourceId}_${relationshipType}_${value}`
LeafKey(sourceId, relationshipType, value) ==
  sourceId \o <<"_">> \o relationshipType \o <<"_">> \o ToStr(value)

StringLeafId(sourceId, relationshipType, value) ==
  Sanitize(LeafKey(sourceId, relationshipType, value))

PrimitiveLeafId(sourceId, relationshipType, value) ==
  LeafKey(sourceId, relationshipType, value)

LeafProperties(value, relationshipType) ==
  JObj(<<P(<<"v","a","l","u","e">>, value),
         P(<<"s","o","u","r","c","e","P","r","o","p","e","r","t","y">>,
           JStr(relationshipType))>>)

\* variant of SetIfAbsent: the presence check is missing
SetAlways(m, node) == MapSet(m, node)

\* if (!this.nodeMap.has(id)) this.nodeMap.set(id, node)
SetIfAbsent(m, node) == IF MapHas(m, node.id) THEN m ELSE MapSet(m, node)

\* variant of DescendIfAbsent: the referenced object is never built
DescendNever(m, targetId, value) == <<>>

\* if (!this.nodeMap.has(targetId)) this.processEntity(value)
DescendIfAbsent(m, targetId, value) ==
  IF MapHas(m, targetId) THEN <<>> ELSE <<ETask(value, NoParent)>>

\* the kinds of value processRelationshipValue tells apart
ValueBranch(value) ==
  IF value.k \in {"arr", "obj"}
  THEN IF Truthy(ExplicitId(value)) THEN "reference"
       ELSE IF (value.k = "obj" /\ Len(value.o) > 0) \/ (value.k = "arr" /\ Len(value.a) > 0)
            THEN "child"
            ELSE "ignored"
  ELSE IF value.k = "str"
  THEN IF IsUrl(value.s) THEN "url"
       ELSE IF Trim(value.s) # <<>> THEN "string"
       ELSE "ignored"
  ELSE IF value.k \in {"num", "bool"} THEN "primitive"
  ELSE "ignored"

(***************************************************************************)
(* State machine                                                           *)
(***************************************************************************)
\* a graph as getGraph returns it
Graph(nodes, ls) == [nodes |-> nodes, links |-> ls]

\* no graph has been handed out yet, no earlier build has been kept
NoGraph == Graph(<<>>, <<>>)
NoBuild == [graph |-> NoGraph, synthesized |-> <<>>]

\* no engine has been constructed
EngineIdle ==
  /\ adjacencyList = <<>>
  /\ engineNodeMap = <<>>
  /\ analytics = <<>>
  /\ epc = "idle"
  /\ communities = <<>>
  /\ improved = FALSE
  /\ cursor = 0
  /\ centrality = <<>>
  /\ iteration = 0

\* the constructor for the document d, up to the call of processData
Construct(d) ==
  /\ data = flattenData(d)
  /\ dataIdx = 1
  /\ nodeMap = <<>>
  /\ links = <<>>
  /\ stack = <<>>
  /\ pc = "run"
  /\ linkOrigin = <<>>
  /\ synthesized = <<>>
  /\ graph = NoGraph

Init ==
  /\ \/ \E i \in 1..Len(Docs) : doc = Docs[i]
     \/ \E i1 \in 0..Len(PoolIds), i2 \in 0..Len(PoolIds),
           v1 \in 1..Len(ValuePool), v2 \in 1..Len(ValuePool) :
          doc = TwoEntityDoc(i1, v1, i2, v2)
  /\ Construct(doc)
  /\ build = 1
  /\ firstBuild = NoBuild
  /\ EngineIdle

\* processData: the next iteration of this.data.forEach
processData ==
  /\ pc = "run"
  /\ stack = <<>>
  /\ dataIdx <= Len(data)
  /\ stack' = <<ETask(data[dataIdx], NoParent)>>
  /\ dataIdx' = dataIdx + 1
  /\ UNCHANGED <<doc, data, nodeMap, links, pc, linkOrigin, synthesized>>
  /\ UNCHANGED <<buildVars, engineVars>>

\* processEntity(entity, parentId) up to its call of processRelationships
processEntity ==
  /\ pc = "run"
  /\ stack # <<>>
  /\ Head(stack).t = "E"
  /\ UNCHANGED <<buildVars, engineVars>>
  /\ LET entity == Head(stack).v
         parentId == Head(stack).src
         rest == Tail(stack)
     IN IF entity.k = "arr"
        THEN /\ stack' = [j \in 1..Len(entity.a) |-> ETask(entity.a[j], parentId)] \o rest
             /\ UNCHANGED <<doc, data, dataIdx, nodeMap, links, pc, linkOrigin, synthesized>>
        ELSE IF entity.k # "obj"
        THEN /\ stack' = rest
             /\ UNCHANGED <<doc, data, dataIdx, nodeMap, links, pc, linkOrigin, synthesized>>
        ELSE \E id \in (IF Truthy(ExplicitId(entity))
                        THEN {ExplicitId(entity).s} ELSE SynIds) :
             \E name \in {extractName(entity)} :
                  /\ synthesized' =
                       IF Truthy(ExplicitId(entity)) THEN synthesized
                       ELSE Append(synthesized, [id |-> id, present |-> MapHas(nodeMap, id)])
                  /\ IF name.r = "throw"
                     THEN /\ pc' = "threw"
                          /\ UNCHANGED <<doc, data, dataIdx, nodeMap, links, stack, linkOrigin>>
                     ELSE /\ nodeMap' = MapSet(nodeMap, GraphNode(id, name.name, TypeOf(entity),
                                                                  entity))
                          /\ links' = IF parentId # NoParent
                                      THEN PushLink(links, GraphLink(parentId, id, S_contains,
                                                                     WeightReference))
                                      ELSE links
                          /\ linkOrigin' = IF parentId # NoParent
                                           THEN Append(linkOrigin, Origin(<<>>, entity, TRUE))
                                           ELSE linkOrigin
                          /\ stack' = processRelationships(entity, id) \o rest
                          /\ UNCHANGED <<doc, data, dataIdx, pc>>

\* processRelationshipValue(sourceId, relationshipType, value)
processRelationshipValue ==
  /\ pc = "run"
  /\ stack # <<>>
  /\ Head(stack).t = "R"
  /\ UNCHANGED <<buildVars, engineVars>>
  /\ LET sourceId == Head(stack).src
         relationshipType == Head(stack).key
         value == Head(stack).v
         rest == Tail(stack)
         branch == ValueBranch(value)
         origin == Origin(relationshipType, value, FALSE)
     IN /\ CASE branch = "reference" ->
                  LET targetId == ExplicitId(value).s
                  IN /\ links' = PushLink(links, GraphLink(sourceId, targetId, relationshipType,
                                                           WeightReference))
                     /\ linkOrigin' = Append(linkOrigin, origin)
                     /\ stack' = DescendIfAbsent(nodeMap, targetId, value) \o rest
                     /\ UNCHANGED nodeMap
             [] branch = "child" ->
                  /\ stack' = <<ETask(value, sourceId)>> \o rest
                  /\ UNCHANGED <<nodeMap, links, linkOrigin>>
             [] branch = "url" ->
                  LET targetId == value.s
                      urlNode == GraphNode(targetId, extractNameFromUrl(targetId),
                                           JStr(S_Reference),
                                           JObj(<<P(<<"u","r","l">>, JStr(targetId))>>))
                  IN /\ nodeMap' = SetIfAbsent(nodeMap, urlNode)
                     /\ links' = PushLink(links, GraphLink(sourceId, targetId, relationshipType,
                                                           WeightUrl))
                     /\ linkOrigin' = Append(linkOrigin, origin)
                     /\ stack' = rest
             [] branch = "string" ->
                  LET leafId == StringLeafId(sourceId, relationshipType, value)
                      leafNode == GraphNode(leafId, extractName(value).name, JStr(S_Value),
                                            LeafProperties(value, relationshipType))
                  IN /\ nodeMap' = SetIfAbsent(nodeMap, leafNode)
                     /\ links' = PushLink(links, GraphLink(sourceId, leafId, relationshipType,
                                                           WeightString))
                     /\ linkOrigin' = Append(linkOrigin, origin)
                     /\ stack' = rest
             [] branch = "primitive" ->
                  LET leafId == PrimitiveLeafId(sourceId, relationshipType, value)
                      leafNode == GraphNode(leafId, ToStr(value),
                                            JStr(IF value.k = "num" THEN S_Number ELSE S_Boolean),
                                            LeafProperties(value, relationshipType))
                  IN /\ nodeMap' = SetIfAbsent(nodeMap, leafNode)
                     /\ links' = PushLink(links, GraphLink(sourceId, leafId, relationshipType,
                                                           WeightPrimitive))
                     /\ linkOrigin' = Append(linkOrigin, origin)
                     /\ stack' = rest
             [] OTHER ->
                  /\ stack' = rest
                  /\ UNCHANGED <<nodeMap, links, linkOrigin>>
        /\ UNCHANGED <<doc, data, dataIdx, pc, synthesized>>

\* the constructor returns and getGraph hands out the graph:
\* { nodes: Array.from(this.nodeMap.values()), links: this.links }
getGraph ==
  /\ pc = "run"
  /\ stack = <<>>
  /\ dataIdx > Len(data)
  /\ pc' = "done"
  /\ graph' = Graph(nodeMap, links)
  /\ UNCHANGED <<doc, data, dataIdx, nodeMap, links, stack, linkOrigin, synthesized>>
  /\ UNCHANGED <<build, firstBuild, engineVars>>

Next == processData \/ processEntity \/ processRelationshipValue \/ getGraph

Spec == Init /\ [][Next]_vars

(***************************************************************************)
(* Repeated builds: new JSONLDProcessor(doc) is run again on the document  *)
(* of a finished build, whose graph and generateId results are kept for    *)
(* comparison.                                                             *)
(***************************************************************************)
MaxBuilds == 2

rebuild ==
  /\ pc = "done"
  /\ build < MaxBuilds
  /\ build' = build + 1
  /\ firstBuild' = IF build = 1 THEN [graph |-> graph, synthesized |-> synthesized]
                   ELSE firstBuild
  /\ data' = flattenData(doc)
  /\ dataIdx' = 1
  /\ nodeMap' = <<>>
  /\ links' = <<>>
  /\ stack' = <<>>
  /\ pc' = "run"
  /\ linkOrigin' = <<>>
  /\ synthesized' = <<>>
  /\ graph' = NoGraph
  /\ UNCHANGED <<doc, engineVars>>

\* the constructor is called for one of the documents of Docs
InitDocs ==
  /\ \E i \in 1..Len(Docs) : doc = Docs[i]
  /\ Init

NextTwoBuilds == Next \/ rebuild

SpecTwoBuilds == InitDocs /\ [][NextTwoBuilds]_vars

(***************************************************************************)
(* Wrappings: a list of entities e1..en is built as [e1..en], then as      *)
(* [[e1],[e2..en]], then as {"@graph": [e1..en]}; the graph of the first   *)
(* build is kept for comparison.                                           *)
(***************************************************************************)
\* [[e1], [e2..en]]
NestedArrays(es) == JArr(<<JArr(<<Head(es)>>), JArr(Tail(es))>>)

\* {"@graph": [e1..en]}
GraphWrapper(es) == JObj(<<P(S_atGraph, JArr(es))>>)

\* the lists of entities: the documents of Docs that are arrays of objects,
\* and every object of Docs as a list of one
EntityLists ==
  {Docs[i].a : i \in {j \in 1..Len(Docs) :
                        /\ Docs[j].k = "arr"
                        /\ Docs[j].a # <<>>
                        /\ \A e \in 1..Len(Docs[j].a) : Docs[j].a[e].k = "obj"}}
  \cup {<<Docs[i]>> : i \in {j \in 1..Len(Docs) : Docs[j].k = "obj"}}

InitWrappings ==
  /\ \E es \in EntityLists : doc = JArr(es)
  /\ Construct(doc)
  /\ build = 1
  /\ firstBuild = NoBuild
  /\ EngineIdle

\* new JSONLDProcessor(...) on the next wrapping of the same entities
rewrap ==
  /\ pc = "done"
  /\ build \in {1, 2}
  /\ doc' = IF build = 1 THEN NestedArrays(doc.a)
            ELSE GraphWrapper(doc.a[1].a \o doc.a[2].a)
  /\ build' = build + 1
  /\ firstBuild' = IF build = 1 THEN [graph |-> graph, synthesized |-> synthesized]
                   ELSE firstBuild
  /\ data' = flattenData(doc')
  /\ dataIdx' = 1
  /\ nodeMap' = <<>>
  /\ links' = <<>>
  /\ stack' = <<>>
  /\ pc' = "run"
  /\ linkOrigin' = <<>>
  /\ synthesized' = <<>>
  /\ graph' = NoGraph
  /\ UNCHANGED engineVars

NextWrappings == Next \/ rewrap

SpecWrappings == InitWrappings /\ [][NextWrappings]_vars

\* the constructor runs to its end: every enabled step of the traversal is
\* eventually taken (single-threaded, synchronous code).  The weak fairness
\* of the two traversal steps is written out with their enabling condition,
\* pc = "run" /\ stack # <<>>.
FairSpec ==
  /\ InitDocs
  /\ [][Next]_vars
  /\ WF_vars(processData)
  /\ WF_vars(getGraph)
  /\ \/ []<>(pc # "run" \/ stack = <<>>)
     \/ []<><<processEntity \/ processRelationshipValue>>_vars

(***************************************************************************)
(* The analytics engine (class GraphAnalyticsEngine).                      *)
(*                                                                         *)
(* Numbers of the report are exact fractions [num, den] in lowest terms    *)
(* with den > 0; Infinity and -Infinity are 1/0 and -1/0.  The rounding of *)
(* JavaScript doubles is not modelled.  A Map, a Set and an object used as *)
(* a dictionary are sequences of entries in insertion order.               *)
(***************************************************************************)
RECURSIVE Gcd(_, _)
Gcd(a, b) == IF b = 0 THEN a ELSE Gcd(b, a % b)

Abs(n) == IF n < 0 THEN -n ELSE n

Reduce(n, d, g) == [num |-> n \div g, den |-> d \div g]

\* the number n / d, for d > 0
Frac(n, d) == Reduce(n, d, Gcd(Abs(n), d))

Num(n) == [num |-> n, den |-> 1]

Infinity == [num |-> 1, den |-> 0]
NegInfinity == [num |-> -1, den |-> 0]

\* a + b, a * b and a / b (b > 0) for finite a and b
Plus(a, b) == Frac(a.num * b.den + b.num * a.den, a.den * b.den)
Times(a, b) == Frac(a.num * b.num, a.den * b.den)
Over(a, b) == Frac(a.num * b.den, a.den * b.num)

\* a < b
Less(a, b) == a.num * b.den < b.num * a.den

\* Math.max(...values) and Math.min(...values)
RECURSIVE MathMaxFrom(_, _, _)
MathMaxFrom(values, i, acc) ==
  IF i > Len(values) THEN acc
  ELSE MathMaxFrom(values, i + 1, IF Less(acc, values[i]) THEN values[i] ELSE acc)

MathMax(values) == MathMaxFrom(values, 1, NegInfinity)

RECURSIVE MathMinFrom(_, _, _)
MathMinFrom(values, i, acc) ==
  IF i > Len(values) THEN acc
  ELSE MathMinFrom(values, i + 1, IF Less(values[i], acc) THEN values[i] ELSE acc)

MathMin(values) == MathMinFrom(values, 1, Infinity)

\* values.reduce((sum, x) => sum + x, 0)
RECURSIVE SumFrom(_, _, _)
SumFrom(values, i, acc) ==
  IF i > Len(values) THEN acc ELSE SumFrom(values, i + 1, Plus(acc, values[i]))

\* an entry of a dictionary object (Record<string, number>)
Entry(id, value) == [id |-> id, value |-> value]

\* Object.values(record)
ObjectValues(record) == [i \in 1..Len(record) |-> record[i].value]

\* an entry of the adjacency list: the neighbor set of id, in insertion order
AdjEntry(id, set) == [id |-> id, set |-> set]

\* set.has(x)
SetHas(set, x) == \E i \in 1..Len(set) : set[i] = x

\* variant of SetAdd: the element is added also when it is already there
SetAddAlwaysAppends(set, x) == Append(set, x)

\* set.add(x)
SetAdd(set, x) == IF SetHas(set, x) THEN set ELSE Append(set, x)

\* this.adjacencyList.get(a)?.add(b)
AddNeighbor(adj, a, b) ==
  [i \in 1..Len(adj) |-> IF adj[i].id = a THEN AdjEntry(a, SetAdd(adj[i].set, b)) ELSE adj[i]]

\* buildAdjacencyList, first loop: an empty neighbor set for every node
RECURSIVE AddNodesFrom(_, _, _)
AddNodesFrom(adj, nodes, i) ==
  IF i > Len(nodes) THEN adj
  ELSE AddNodesFrom(MapSet(adj, AdjEntry(nodes[i].id, <<>>)), nodes, i + 1)

\* buildAdjacencyList, second loop: each link adds its target to the set of
\* its source and its source to the set of its target
RECURSIVE AddLinksFrom(_, _, _)
AddLinksFrom(adj, ls, i) ==
  IF i > Len(ls) THEN adj
  ELSE AddLinksFrom(AddNeighbor(AddNeighbor(adj, ls[i].source, ls[i].target),
                                ls[i].target, ls[i].source),
                    ls, i + 1)

buildAdjacencyList(g) == AddLinksFrom(AddNodesFrom(<<>>, g.nodes, 1), g.links, 1)

\* buildAdjacencyList: this.nodeMap.set(node.id, node) for every node
RECURSIVE NodeMapFrom(_, _, _)
NodeMapFrom(m, nodes, i) ==
  IF i > Len(nodes) THEN m ELSE NodeMapFrom(MapSet(m, nodes[i]), nodes, i + 1)

\* Array.from(this.nodeMap.keys())
NodeKeys(m) == [i \in 1..Len(m) |-> m[i].id]

\* Array.from(this.adjacencyList.get(id) || [])
Neighbors(adj, id) == IF MapHas(adj, id) THEN MapGet(adj, id).set ELSE <<>>

\* variant of calculateDensity: the pairs of nodes joined by a link are
\* counted instead of the links
calculateDensityOfPairs(g) ==
  IF Len(g.nodes) <= 1 THEN Num(0)
  ELSE Frac(2 * Cardinality({pair \in SUBSET {g.nodes[i].id : i \in 1..Len(g.nodes)} :
                              /\ Cardinality(pair) = 2
                              /\ \E i \in 1..Len(g.links) :
                                   pair = {g.links[i].source, g.links[i].target}}),
            Len(g.nodes) * (Len(g.nodes) - 1))

\* calculateDensity
calculateDensity(g) ==
  IF Len(g.nodes) <= 1 THEN Num(0)
  ELSE Frac(2 * Len(g.links), Len(g.nodes) * (Len(g.nodes) - 1))

\* calculateDegrees: degrees[node.id] = this.adjacencyList.get(node.id)?.size || 0
RECURSIVE DegreesFrom(_, _, _, _)
DegreesFrom(degrees, nodes, adj, i) ==
  IF i > Len(nodes) THEN degrees
  ELSE DegreesFrom(MapSet(degrees, Entry(nodes[i].id, Num(Len(Neighbors(adj, nodes[i].id))))),
                   nodes, adj, i + 1)

calculateDegrees(g, adj) == DegreesFrom(<<>>, g.nodes, adj, 1)

\* calculateAverageDegree
calculateAverageDegree(degrees) ==
  IF Len(degrees) > 0
  THEN Over(SumFrom(ObjectValues(degrees), 1, Num(0)), Num(Len(degrees)))
  ELSE Num(0)

\* calculateClusteringCoefficient, inner loops: the positions i < j with
\* this.adjacencyList.get(neighbors[i])?.has(neighbors[j])
RECURSIVE TrianglesFrom(_, _, _, _)
TrianglesFrom(adj, neighbors, i, j) ==
  IF i > Len(neighbors) THEN 0
  ELSE IF j > Len(neighbors) THEN TrianglesFrom(adj, neighbors, i + 1, i + 2)
  ELSE (IF SetHas(Neighbors(adj, neighbors[i]), neighbors[j]) THEN 1 ELSE 0)
       + TrianglesFrom(adj, neighbors, i, j + 1)

\* triangles / possibleTriangles for a node with these neighbors
LocalClustering(adj, neighbors) ==
  Frac(TrianglesFrom(adj, neighbors, 1, 2),
       (Len(neighbors) * (Len(neighbors) - 1)) \div 2)

\* variant of ClusteringFrom: the total is divided by the number of all nodes
RECURSIVE ClusteringOverAllNodes(_, _, _, _, _)
ClusteringOverAllNodes(nodes, adj, i, totalClustering, validNodes) ==
  IF i > Len(nodes)
  THEN IF validNodes > 0 THEN Over(totalClustering, Num(Len(nodes))) ELSE Num(0)
  ELSE IF Len(Neighbors(adj, nodes[i].id)) < 2
       THEN ClusteringOverAllNodes(nodes, adj, i + 1, totalClustering, validNodes)
       ELSE ClusteringOverAllNodes(nodes, adj, i + 1,
                           Plus(totalClustering,
                                LocalClustering(adj, Neighbors(adj, nodes[i].id))),
                           validNodes + 1)

\* calculateClusteringCoefficient, the loop over the nodes and the result
RECURSIVE ClusteringFrom(_, _, _, _, _)
ClusteringFrom(nodes, adj, i, totalClustering, validNodes) ==
  IF i > Len(nodes)
  THEN IF validNodes > 0 THEN Over(totalClustering, Num(validNodes)) ELSE Num(0)
  ELSE IF Len(Neighbors(adj, nodes[i].id)) < 2
       THEN ClusteringFrom(nodes, adj, i + 1, totalClustering, validNodes)
       ELSE ClusteringFrom(nodes, adj, i + 1,
                           Plus(totalClustering,
                                LocalClustering(adj, Neighbors(adj, nodes[i].id))),
                           validNodes + 1)

calculateClusteringCoefficient(g, adj) == ClusteringFrom(g.nodes, adj, 1, Num(0), 0)

\* bfs, the forEach over the neighbors of the dequeued node, whose distance
\* is d
RECURSIVE BfsVisit(_, _, _, _)
BfsVisit(st, neighbors, i, d) ==
  IF i > Len(neighbors) THEN st
  ELSE IF SetHas(st.visited, neighbors[i]) THEN BfsVisit(st, neighbors, i + 1, d)
  ELSE BfsVisit([visited |-> SetAdd(st.visited, neighbors[i]),
                 distances |-> MapSet(st.distances, Entry(neighbors[i], d + 1)),
                 queue |-> Append(st.queue, neighbors[i])],
                neighbors, i + 1, d)

\* bfs, the while loop
RECURSIVE BfsLoop(_, _)
BfsLoop(adj, st) ==
  IF st.queue = <<>> THEN st.distances
  ELSE BfsLoop(adj, BfsVisit([st EXCEPT !.queue = Tail(st.queue)],
                             Neighbors(adj, Head(st.queue)), 1,
                             MapGet(st.distances, Head(st.queue)).value))

\* bfs(startNode): the distances object
bfs(adj, startNode) ==
  BfsLoop(adj, [visited |-> <<startNode>>,
                distances |-> <<Entry(startNode, 0)>>,
                queue |-> <<startNode>>])

\* the distances d > 0 among Object.values(distances)
PositiveDistances(distances) == SelectSeq(ObjectValues(distances), LAMBDA d : d > 0)

RECURSIVE SumIntsFrom(_, _)
SumIntsFrom(values, i) ==
  IF i > Len(values) THEN 0 ELSE values[i] + SumIntsFrom(values, i + 1)

\* variant of ClosenessOf: the classical normalisation by the sum alone
ClosenessInverseSum(positive) ==
  IF Len(positive) > 0 THEN Frac(1, SumIntsFrom(positive, 1)) ELSE Num(0)

\* reachableNodes > 0 ? reachableNodes / totalDistance : 0
ClosenessOf(positive) ==
  IF Len(positive) > 0 THEN Frac(Len(positive), SumIntsFrom(positive, 1)) ELSE Num(0)

\* calculateClosenessCentrality
RECURSIVE ClosenessFrom(_, _, _, _)
ClosenessFrom(closeness, keys, adj, i) ==
  IF i > Len(keys) THEN closeness
  ELSE ClosenessFrom(MapSet(closeness,
                            Entry(keys[i], ClosenessOf(PositiveDistances(bfs(adj, keys[i]))))),
                     keys, adj, i + 1)

calculateClosenessCentrality(keys, adj) == ClosenessFrom(<<>>, keys, adj, 1)

\* the distances as numbers
AsNumbers(values) == [i \in 1..Len(values) |-> Num(values[i])]

\* variant of DiameterFrom: the distances of the last source only
RECURSIVE DiameterOfLastSource(_, _, _, _)
DiameterOfLastSource(keys, adj, i, maxDistance) ==
  IF i > Len(keys) THEN maxDistance
  ELSE DiameterOfLastSource(keys, adj, i + 1,
                    MathMax(<<Num(0),
                              MathMax(AsNumbers(PositiveDistances(bfs(adj, keys[i]))))>>))

\* calculateDiameter: maxDistance = Math.max(maxDistance, maxDist)
RECURSIVE DiameterFrom(_, _, _, _)
DiameterFrom(keys, adj, i, maxDistance) ==
  IF i > Len(keys) THEN maxDistance
  ELSE DiameterFrom(keys, adj, i + 1,
                    MathMax(<<maxDistance,
                              MathMax(AsNumbers(PositiveDistances(bfs(adj, keys[i]))))>>))

calculateDiameter(keys, adj) == DiameterFrom(keys, adj, 1, Num(0))

\* calculateAveragePathLength
RECURSIVE PathLengthFrom(_, _, _, _, _)
PathLengthFrom(keys, adj, i, totalDistance, pathCount) ==
  IF i > Len(keys)
  THEN IF pathCount > 0 THEN Frac(totalDistance, pathCount) ELSE Num(0)
  ELSE PathLengthFrom(keys, adj, i + 1,
                      totalDistance + SumIntsFrom(PositiveDistances(bfs(adj, keys[i])), 1),
                      pathCount + Len(PositiveDistances(bfs(adj, keys[i]))))

calculateAveragePathLength(keys, adj) == PathLengthFrom(keys, adj, 1, 0, 0)

\* the keys as a set
KeySet(keys) == {keys[i] : i \in 1..Len(keys)}

\* calculateBetweennessCentrality: the maps of one source before its search
BrandesStart(keys, source) ==
  [stack |-> <<>>,
   predecessors |-> [k \in KeySet(keys) |-> <<>>],
   distances |-> [[k \in KeySet(keys) |-> -1] EXCEPT ![source] = 0],
   pathCounts |-> [[k \in KeySet(keys) |-> 0] EXCEPT ![source] = 1],
   queue |-> <<source>>]

\* if (neighborDist < 0) { queue.push(neighbor); distances.set(neighbor, currentDist + 1) }
BrandesDiscover(st, current, neighbor) ==
  IF st.distances[neighbor] < 0
  THEN [st EXCEPT !.queue = Append(@, neighbor),
                  !.distances[neighbor] = st.distances[current] + 1]
  ELSE st

\* if (distances.get(neighbor) === currentDist + 1) { count paths, record predecessor }
BrandesCount(st, current, neighbor) ==
  IF st.distances[neighbor] = st.distances[current] + 1
  THEN [st EXCEPT !.pathCounts[neighbor] = @ + st.pathCounts[current],
                  !.predecessors[neighbor] = Append(@, current)]
  ELSE st

\* one neighbor of the dequeued node; the maps give undefined for an id
\* that is no key, and both tests are then false
BrandesNeighbor(st, current, neighbor) ==
  IF neighbor \notin DOMAIN st.distances THEN st
  ELSE BrandesCount(BrandesDiscover(st, current, neighbor), current, neighbor)

RECURSIVE BrandesVisit(_, _, _, _)
BrandesVisit(st, neighbors, i, current) ==
  IF i > Len(neighbors) THEN st
  ELSE BrandesVisit(BrandesNeighbor(st, current, neighbors[i]), neighbors, i + 1, current)

\* the first while loop: breadth-first search from the source
RECURSIVE BrandesLoop(_, _)
BrandesLoop(adj, st) ==
  IF st.queue = <<>> THEN st
  ELSE BrandesLoop(adj, BrandesVisit([st EXCEPT !.queue = Tail(@),
                                               !.stack = Append(@, Head(st.queue))],
                                     Neighbors(adj, Head(st.queue)), 1, Head(st.queue)))

\* currentPreds.forEach: delta[pred] += pathCounts[pred] / pathCounts[current] * (1 + delta[current])
RECURSIVE AddContributions(_, _, _, _, _)
AddContributions(delta, preds, i, current, pathCounts) ==
  IF i > Len(preds) THEN delta
  ELSE AddContributions(
         [delta EXCEPT ![preds[i]] =
            Plus(@, Times(Frac(pathCounts[preds[i]], pathCounts[current]),
                          Plus(Num(1), delta[current])))],
         preds, i + 1, current, pathCounts)

\* if (current !== source) betweenness[current] += delta.get(current)
AddDependency(betweenness, delta, current, source) ==
  IF current # source
  THEN [betweenness EXCEPT ![current] = Plus(@, delta[current])]
  ELSE betweenness

\* the second while loop: the stack is popped from its end (the popped node
\* is none of its own predecessors, so its delta is the same before and
\* after the forEach)
RECURSIVE Accumulate(_, _, _, _, _)
Accumulate(stk, delta, betweenness, st, source) ==
  IF stk = <<>> THEN betweenness
  ELSE Accumulate(SubSeq(stk, 1, Len(stk) - 1),
                  AddContributions(delta, st.predecessors[stk[Len(stk)]], 1,
                                   stk[Len(stk)], st.pathCounts),
                  AddDependency(betweenness, delta, stk[Len(stk)], source),
                  st, source)

\* the search and the accumulation for one source
BrandesAccumulate(keys, betweenness, st, source) ==
  Accumulate(st.stack, [k \in KeySet(keys) |-> Num(0)], betweenness, st, source)

RECURSIVE BrandesFrom(_, _, _, _)
BrandesFrom(keys, adj, i, betweenness) ==
  IF i > Len(keys) THEN betweenness
  ELSE BrandesFrom(keys, adj, i + 1,
                   BrandesAccumulate(keys, betweenness,
                                     BrandesLoop(adj, BrandesStart(keys, keys[i])),
                                     keys[i]))

\* variant of NormFactor: the factor of a directed graph
NormFactorDirected(n) == IF n > 2 THEN Frac(1, (n - 1) * (n - 2)) ELSE Num(1)

\* n > 2 ? 2 / ((n - 1) * (n - 2)) : 1
NormFactor(n) == IF n > 2 THEN Frac(2, (n - 1) * (n - 2)) ELSE Num(1)

\* the betweenness object, normalized, with its keys in insertion order
Normalized(keys, betweenness, normFactor) ==
  [i \in 1..Len(keys) |-> Entry(keys[i], Times(betweenness[keys[i]], normFactor))]

calculateBetweennessCentrality(keys, adj) ==
  Normalized(keys, BrandesFrom(keys, adj, 1, [k \in KeySet(keys) |-> Num(0)]),
             NormFactor(Len(keys)))

(***************************************************************************)
(* detectCommunities.  The labels are a Record<string, number> in the      *)
(* order of the nodes; communityScores is a Record<number, number>, whose  *)
(* keys are strings of integers and so come out of Object.entries in       *)
(* ascending numeric order.                                                *)
(***************************************************************************)

\* variant of InitialCommunities: every node starts in community 0
InitialCommunitiesAllZero(keys) == [i \in 1..Len(keys) |-> Entry(keys[i], 0)]

\* communities[nodeId] = index, for the nodes in the order of nodeMap.keys()
InitialCommunities(keys) == [i \in 1..Len(keys) |-> Entry(keys[i], i - 1)]

\* parseInt of the digits s[1..i]
RECURSIVE ParseIntFrom(_, _)
ParseIntFrom(s, i) ==
  IF i = 0 THEN 0
  ELSE 10 * ParseIntFrom(s, i - 1) + ((CHOOSE d \in 1..10 : DigitChar[d] = s[i]) - 1)

\* parseInt(community) for a key of communityScores
parseInt(s) == ParseIntFrom(s, Len(s))

\* communityScores[c] after the loop over the neighbors
ScoreOf(neighbors, labels, c) ==
  Cardinality({i \in 1..Len(neighbors) : MapGet(labels, neighbors[i]).value = c})

\* Object.entries(communityScores), from the key c on
RECURSIVE ScoreEntriesFrom(_, _, _)
ScoreEntriesFrom(neighbors, labels, c) ==
  IF c >= Len(labels) THEN <<>>
  ELSE (IF ScoreOf(neighbors, labels, c) > 0
        THEN <<[community |-> NatToStr(c), score |-> ScoreOf(neighbors, labels, c)]>>
        ELSE <<>>)
       \o ScoreEntriesFrom(neighbors, labels, c + 1)

\* the reduce over the entries, from the i-th on
RECURSIVE BestFrom(_, _, _)
BestFrom(entries, i, best) ==
  IF i > Len(entries) THEN best
  ELSE BestFrom(entries, i + 1,
                IF entries[i].score > best.score
                THEN [community |-> parseInt(entries[i].community),
                      score |-> entries[i].score]
                ELSE best)

\* bestCommunity: the reduce starts from the node's own label with score 0
bestCommunity(neighbors, labels, own) ==
  BestFrom(ScoreEntriesFrom(neighbors, labels, 0), 1, [community |-> own, score |-> 0])

\* variant of Relabels: any neighbor at all counts as an improvement
RelabelsWithAnyNeighbor(best, own) == best.score > 0

\* bestCommunity.community !== communities[nodeId] && bestCommunity.score > 0
Relabels(best, own) == best.community # own /\ best.score > 0

\* the body of nodes.forEach for nodeId, given its bestCommunity
VisitWith(st, nodeId, best) ==
  IF Relabels(best, MapGet(st.communities, nodeId).value)
  THEN [communities |-> MapSet(st.communities, Entry(nodeId, best.community)),
        improved |-> TRUE]
  ELSE st

\* the body of nodes.forEach for nodeId
CommunityVisit(st, adj, nodeId) ==
  VisitWith(st, nodeId,
            bestCommunity(Neighbors(adj, nodeId), st.communities,
                          MapGet(st.communities, nodeId).value))

\* nodes.forEach from the i-th node on
RECURSIVE PassFrom(_, _, _, _)
PassFrom(st, adj, keys, i) ==
  IF i > Len(keys) THEN st
  ELSE PassFrom(CommunityVisit(st, adj, keys[i]), adj, keys, i + 1)

\* while (improved) { improved = false; nodes.forEach(...) }
RECURSIVE PassesFrom(_, _, _)
PassesFrom(st, adj, keys) ==
  IF ~st.improved THEN st.communities
  ELSE PassesFrom(PassFrom([communities |-> st.communities, improved |-> FALSE],
                           adj, keys, 1),
                  adj, keys)

detectCommunities(keys, adj) ==
  PassesFrom([communities |-> InitialCommunities(keys), improved |-> TRUE], adj, keys)

\* the object calculateAnalytics returns (without the eigenvector field,
\* whose values are floating-point approximations: see the step actions of
\* calculateEigenvectorCentrality)
Report(g, adj, keys, degrees) ==
  [nodeCount |-> Len(g.nodes),
   linkCount |-> Len(g.links),
   density |-> calculateDensity(g),
   averageDegree |-> calculateAverageDegree(degrees),
   maxDegree |-> MathMax(ObjectValues(degrees)),
   minDegree |-> MathMin(ObjectValues(degrees)),
   clustering |-> calculateClusteringCoefficient(g, adj),
   centralityMeasures |->
     [betweenness |-> calculateBetweennessCentrality(keys, adj),
      closeness |-> calculateClosenessCentrality(keys, adj),
      degree |-> degrees],
   communities |-> detectCommunities(keys, adj),
   diameter |-> calculateDiameter(keys, adj),
   averagePathLength |-> calculateAveragePathLength(keys, adj)]

\* new GraphAnalyticsEngine(graph), for the graph getGraph handed out
GraphAnalyticsEngine ==
  /\ pc = "done"
  /\ epc = "idle"
  /\ adjacencyList' = buildAdjacencyList(graph)
  /\ engineNodeMap' = NodeMapFrom(<<>>, graph.nodes, 1)
  /\ epc' = "ready"
  /\ UNCHANGED <<builderVars, buildVars, analytics, stepVars>>

\* calculateAnalytics()
calculateAnalytics ==
  /\ epc = "ready"
  /\ analytics' = Report(graph, adjacencyList, NodeKeys(engineNodeMap),
                         calculateDegrees(graph, adjacencyList))
  /\ epc' = "reported"
  /\ UNCHANGED <<builderVars, buildVars, adjacencyList, engineNodeMap, stepVars>>

NextAnalytics == GraphAnalyticsEngine \/ calculateAnalytics

(***************************************************************************)
(* The engine on its own: it is constructed for any graph of up to         *)
(* MaxNodes nodes A, B, ... and up to MaxLinks links between them, in      *)
(* every order and direction, self-links and parallel links included.      *)
(***************************************************************************)
MaxNodes == 3
MaxLinks == 3

NodeNames == <<"A", "B", "C", "D", "E">>

NodeId(i) == <<NodeNames[i]>>

S_rel == <<"r", "e", "l">>

SmallGraph(n, ends) ==
  Graph([i \in 1..n |-> GraphNode(NodeId(i), NodeId(i), JStr(S_Unknown), JObj(<<>>))],
        [i \in 1..Len(ends) |-> GraphLink(NodeId(ends[i][1]), NodeId(ends[i][2]), S_rel,
                                           WeightReference)])

\* larger graphs, as the number of nodes and the ends of the links:
\*   1  the cycle A-B-C-D-A           2  the triangle A-B-C with D hanging from C
\*   3  the path A-B-C and D alone    4  the complete graph on A, B, C, D
\*   5  the path B-A-D-C              6  the star with centre B
\*   7  the pairs A-B and C-D         8  the triangles A-B-C and C-D-E
\*   9  the cycle A-B-C-D-A with a second link B-A and a self-link of C
LargerGraphs == <<
  [n |-> 4, ends |-> << <<1, 2>>, <<2, 3>>, <<3, 4>>, <<4, 1>> >>],
  [n |-> 4, ends |-> << <<1, 2>>, <<2, 3>>, <<3, 1>>, <<3, 4>> >>],
  [n |-> 4, ends |-> << <<1, 2>>, <<2, 3>> >>],
  [n |-> 4, ends |-> << <<1, 2>>, <<1, 3>>, <<1, 4>>, <<2, 3>>, <<2, 4>>, <<3, 4>> >>],
  [n |-> 4, ends |-> << <<2, 1>>, <<1, 4>>, <<4, 3>> >>],
  [n |-> 4, ends |-> << <<2, 1>>, <<3, 2>>, <<2, 4>> >>],
  [n |-> 4, ends |-> << <<1, 2>>, <<3, 4>> >>],
  [n |-> 5, ends |-> << <<1, 2>>, <<2, 3>>, <<3, 1>>, <<3, 4>>, <<4, 5>>, <<5, 3>> >>],
  [n |-> 4, ends |-> << <<1, 2>>, <<2, 3>>, <<3, 3>>, <<3, 4>>, <<2, 1>>, <<4, 1>> >>]
  >>

\* the processor has returned (here from the document null); the graph is
\* the one the caller hands to the engine
InitAnalytics ==
  /\ doc = Null
  /\ data = flattenData(doc)
  /\ dataIdx = 1
  /\ nodeMap = <<>>
  /\ links = <<>>
  /\ stack = <<>>
  /\ pc = "done"
  /\ linkOrigin = <<>>
  /\ synthesized = <<>>
  /\ build = 1
  /\ firstBuild = NoBuild
  /\ \/ \E n \in 0..MaxNodes, k \in 0..MaxLinks :
          \E ends \in [1..k -> (1..n) \X (1..n)] : graph = SmallGraph(n, ends)
     \/ \E i \in 1..Len(LargerGraphs) :
          graph = SmallGraph(LargerGraphs[i].n, LargerGraphs[i].ends)
  /\ EngineIdle

SpecAnalytics == InitAnalytics /\ [][NextAnalytics]_vars

(***************************************************************************)
(* The loops of the engine, one step at a time.  Both loops read the graph *)
(* through the adjacency alone, so each set of links is taken once: in     *)
(* ascending order, every link from the earlier node to the later one.     *)
(***************************************************************************)
NodeIndex(g, id) == CHOOSE i \in 1..Len(g.nodes) : g.nodes[i].id = id

\* the link l of g comes before the link m
LinkBefore(g, l, m) ==
  \/ NodeIndex(g, l.source) < NodeIndex(g, m.source)
  \/ /\ l.source = m.source
     /\ NodeIndex(g, l.target) < NodeIndex(g, m.target)

WrittenAscending(g) ==
  /\ \A i \in 1..Len(g.links) :
        NodeIndex(g, g.links[i].source) <= NodeIndex(g, g.links[i].target)
  /\ \A i \in 1..(Len(g.links) - 1) : LinkBefore(g, g.links[i], g.links[i + 1])

InitSteps ==
  /\ InitAnalytics
  /\ \/ WrittenAscending(graph)
     \/ \E i \in 1..Len(LargerGraphs) :
          graph = SmallGraph(LargerGraphs[i].n, LargerGraphs[i].ends)

\* detectCommunities(), up to the while loop
startCommunities ==
  /\ epc = "ready"
  /\ communities' = InitialCommunities(NodeKeys(engineNodeMap))
  /\ improved' = TRUE
  /\ cursor' = 0
  /\ epc' = "communities"
  /\ UNCHANGED <<builderVars, buildVars, adjacencyList, engineNodeMap, analytics,
                 centrality, iteration>>

\* while (improved) finds the flag set: improved = false, and forEach begins
beginPass ==
  /\ epc = "communities"
  /\ cursor = 0
  /\ improved
  /\ improved' = FALSE
  /\ cursor' = IF Len(communities) = 0 THEN 0 ELSE 1
  /\ UNCHANGED <<builderVars, buildVars, adjacencyList, engineNodeMap, analytics, epc,
                 communities, centrality, iteration>>

\* the callback of nodes.forEach for the node at the cursor
visitNode ==
  /\ epc = "communities"
  /\ cursor > 0
  /\ \E st \in {CommunityVisit([communities |-> communities, improved |-> improved],
                                adjacencyList, NodeKeys(engineNodeMap)[cursor])} :
       /\ communities' = st.communities
       /\ improved' = st.improved
  /\ cursor' = IF cursor = Len(communities) THEN 0 ELSE cursor + 1
  /\ UNCHANGED <<builderVars, buildVars, adjacencyList, engineNodeMap, analytics, epc,
                 centrality, iteration>>

\* while (improved) finds the flag clear: return communities
returnCommunities ==
  /\ epc = "communities"
  /\ cursor = 0
  /\ ~improved
  /\ epc' = "communitiesReturned"
  /\ UNCHANGED <<builderVars, buildVars, adjacencyList, engineNodeMap, analytics,
                 stepVars>>

NextCommunities ==
  \/ GraphAnalyticsEngine
  \/ startCommunities
  \/ beginPass
  \/ visitNode
  \/ returnCommunities

\* some step of NextCommunities can be taken
CommunitiesRunning == pc = "done" /\ epc \in {"idle", "ready", "communities"}

\* the engine is single-threaded and every step of the loop is a plain
\* statement: a step that can be taken is taken (weak fairness of
\* NextCommunities, written out)
SpecCommunities ==
  /\ InitSteps
  /\ [][NextCommunities]_vars
  /\ \/ []<>(~CommunitiesRunning)
     \/ []<><<NextCommunities>>_vars

(***************************************************************************)
(* calculateEigenvectorCentrality.  The scores are floating-point numbers; *)
(* the model keeps them exactly where that is possible.  A score record    *)
(* has a scale and, per node, an integer value:                            *)
(*   "raw"    the score of a node is its value (the initial ones, and the  *)
(*            zeros of a graph without links);                             *)
(*   "unit"   the score of a node is its value divided by the square root  *)
(*            of the sum of the squares of all values, the values having   *)
(*            no common divisor;                                           *)
(*   "float"  the scores are no longer tracked (values is empty).          *)
(* Two "unit" records with the same values are the same scores, so the     *)
(* change between them is 0.  Two with different values of at most         *)
(* ExactEntries each, on up to 5 nodes, differ in some node by             *)
(* 1 / (2 * 5^(3/2) * ExactEntries^4) > 1e-6 or more.  Beyond that the     *)
(* outcome of the test against the tolerance is left open.                 *)
(***************************************************************************)
maxIterations == 100

\* the largest value up to which maxChange < tolerance is decided exactly
ExactEntries == 14

Scores(scale, values) == [scale |-> scale, values |-> values]

\* centrality[nodeId] = 1 for every node
InitialCentrality(keys) == Scores("raw", [i \in 1..Len(keys) |-> Entry(keys[i], 1)])

\* newCentrality[nodeId] += centrality[neighbor], from the i-th neighbor on
RECURSIVE NeighborSumFrom(_, _, _)
NeighborSumFrom(neighbors, values, i) ==
  IF i > Len(neighbors) THEN 0
  ELSE MapGet(values, neighbors[i]).value + NeighborSumFrom(neighbors, values, i + 1)

\* newCentrality before the normalization, in units of the old scale
NeighborSums(keys, adj, values) ==
  [i \in 1..Len(keys) |->
     Entry(keys[i], NeighborSumFrom(Neighbors(adj, keys[i]), values, 1))]

\* the sum of val * val over the values from the i-th on
RECURSIVE SumOfSquaresFrom(_, _)
SumOfSquaresFrom(values, i) ==
  IF i > Len(values) THEN 0
  ELSE values[i].value * values[i].value + SumOfSquaresFrom(values, i + 1)

RECURSIVE GcdFrom(_, _)
GcdFrom(values, i) ==
  IF i > Len(values) THEN 0 ELSE Gcd(values[i].value, GcdFrom(values, i + 1))

\* newCentrality[nodeId] /= norm: the direction of the sums
Normalize(sums) ==
  Scores("unit", [i \in 1..Len(sums) |->
                    Entry(sums[i].id, sums[i].value \div GcdFrom(sums, 1))])

WithinExact(values) == \A i \in 1..Len(values) : values[i].value <= ExactEntries

\* maxChange < tolerance, for the scores old and the normalized scores new
\* (a set: both outcomes where the model does not decide)
ChangeBelowTolerance(old, new) ==
  IF old.scale = "raw"
  THEN {\A i \in 1..Len(new.values) :
          new.values[i].value * new.values[i].value
            = old.values[i].value * old.values[i].value * SumOfSquaresFrom(new.values, 1)}
  ELSE IF old.scale = "unit" /\ old.values = new.values THEN {TRUE}
  ELSE IF old.scale = "unit" /\ WithinExact(old.values) /\ WithinExact(new.values)
       THEN {FALSE}
  ELSE BOOLEAN

\* the body of the loop for the sums of an exact record: the new scores
\* and the outcomes of the test
IterationOf(old, sums) ==
  IF SumOfSquaresFrom(sums, 1) = 0
  THEN {[scores |-> Scores("raw", sums), converged |-> TRUE]}
  ELSE {[scores |-> IF WithinExact(Normalize(sums).values) THEN Normalize(sums)
                    ELSE Scores("float", <<>>),
         converged |-> c] : c \in ChangeBelowTolerance(old, Normalize(sums))}

\* the body of the loop
Iteration(keys, adj, old) ==
  IF old.scale = "float"
  THEN {[scores |-> old, converged |-> c] : c \in BOOLEAN}
  ELSE IterationOf(old, NeighborSums(keys, adj, old.values))

\* variant of LoopContinues: the test admits the index maxIterations
LoopContinuesAtLimit(i) == i <= maxIterations

\* iteration < maxIterations
LoopContinues(i) == i < maxIterations

\* calculateEigenvectorCentrality(), up to the loop
startEigenvector ==
  /\ epc = "ready"
  /\ centrality' = InitialCentrality(NodeKeys(engineNodeMap))
  /\ iteration' = 0
  /\ epc' = "eigenvector"
  /\ UNCHANGED <<builderVars, buildVars, adjacencyList, engineNodeMap, analytics,
                 communities, improved, cursor>>

\* one turn of the loop: it ends in the break and the return, or in
\* iteration++
iterate ==
  /\ epc = "eigenvector"
  /\ LoopContinues(iteration)
  /\ \E o \in Iteration(NodeKeys(engineNodeMap), adjacencyList, centrality) :
       /\ centrality' = o.scores
       /\ iteration' = IF o.converged THEN iteration ELSE iteration + 1
       /\ epc' = IF o.converged THEN "eigenvectorReturned" ELSE epc
  /\ UNCHANGED <<builderVars, buildVars, adjacencyList, engineNodeMap, analytics,
                 communities, improved, cursor>>

\* the test of the loop fails: return centrality
returnCentrality ==
  /\ epc = "eigenvector"
  /\ ~LoopContinues(iteration)
  /\ epc' = "eigenvectorReturned"
  /\ UNCHANGED <<builderVars, buildVars, adjacencyList, engineNodeMap, analytics,
                 stepVars>>

NextEigenvector ==
  \/ GraphAnalyticsEngine
  \/ startEigenvector
  \/ iterate
  \/ returnCentrality

\* some step of NextEigenvector can be taken
EigenvectorRunning == pc = "done" /\ epc \in {"idle", "ready", "eigenvector"}

\* a step of the loop that can be taken is taken (weak fairness of
\* NextEigenvector, written out)
SpecEigenvector ==
  /\ InitSteps
  /\ [][NextEigenvector]_vars
  /\ \/ []<>(~EigenvectorRunning)
     \/ []<><<NextEigenvector>>_vars

(***************************************************************************)
(* Properties of the graph builder                                         *)
(***************************************************************************)
Done == pc = "done"

LinkIdx == 1..Len(links)
NodeIdx == 1..Len(nodeMap)

IsContainsLink(i) == linkOrigin[i].contains
IsReferenceLink(i) == ~linkOrigin[i].contains /\ links[i].weight = WeightReference
IsUrlLink(i) == links[i].weight = WeightUrl
IsStringLeafLink(i) == links[i].weight = WeightString
IsPrimitiveLeafLink(i) == links[i].weight = WeightPrimitive

\* C1: in the graph handed out by getGraph, the source and the target of
\* every link (reference, contains, URL reference, value leaf) are ids of
\* nodes of the graph.
Theorem_C1 ==
  Done => \A i \in LinkIdx : /\ links[i].source \in MapKeys(nodeMap)
                             /\ links[i].target \in MapKeys(nodeMap)

\* a finished build whose reference target sits inside an id-less child, so
\* that it is registered only by the descent of processRelationshipValue,
\* next to a contains link, a URL link and both kinds of leaf link
Witness_C1 ==
  /\ Done
  /\ \E i \in LinkIdx : IsContainsLink(i)
  /\ \E i \in LinkIdx : IsUrlLink(i)
  /\ \E i \in LinkIdx : IsStringLeafLink(i)
  /\ \E i \in LinkIdx : IsPrimitiveLeafLink(i)
  /\ \E i \in LinkIdx :
       /\ IsReferenceLink(i)
       /\ \A j \in 1..Len(data) : ~Truthy(ExplicitId(data[j]))
                                   \/ ExplicitId(data[j]).s # links[i].target

\* the indices of data that carry the explicit identifier id
DataWithId(id) ==
  {j \in 1..Len(data) : Truthy(ExplicitId(data[j])) /\ ExplicitId(data[j]).s = id}

\* C2: no two nodes of the returned graph share an id, and an @id that
\* occurs several times in the input has exactly one node.
Theorem_C2 ==
  Done => /\ \A i, j \in NodeIdx : nodeMap[i].id = nodeMap[j].id => i = j
          /\ \A d \in 1..Len(data) :
               (data[d].k = "obj" /\ Truthy(ExplicitId(data[d])))
                 => Cardinality({i \in NodeIdx : nodeMap[i].id = ExplicitId(data[d]).s}) = 1

\* a finished build of a document in which the same @id occurs as a stub
\* and as a full definition
Witness_C2 ==
  /\ Done
  /\ \E d, e \in 1..Len(data) :
       /\ d # e
       /\ data[d].k = "obj" /\ data[e].k = "obj"
       /\ Truthy(ExplicitId(data[d]))
       /\ e \in DataWithId(ExplicitId(data[d]).s)
       /\ Len(data[d].o) # Len(data[e].o)

\* C4: every step of the traversal only extends the registered node ids
\* and the link sequence: no id disappears, links is a prefix of links'.
Theorem_C4 ==
  [][/\ MapKeys(nodeMap) \subseteq MapKeys(nodeMap')
     /\ Len(links') >= Len(links)
     /\ SubSeq(links', 1, Len(links)) = links]_vars

\* the traversal is under way with several nodes and links already there
Witness_C4 ==
  /\ pc = "run"
  /\ stack # <<>>
  /\ Len(links) >= 2
  /\ Len(nodeMap) >= 3

\* C3: a node entry, once registered, keeps the type, name and properties
\* of its first registration: a later processEntity for an object with the
\* same @id (or id) reuses the entry instead of replacing it.
Claim_C3 ==
  [][(/\ pc = "run" /\ stack # <<>>
      /\ Head(stack).t = "E"
      /\ Head(stack).v.k = "obj"
      /\ Truthy(ExplicitId(Head(stack).v))
      /\ MapHas(nodeMap, ExplicitId(Head(stack).v).s)
      /\ ExplicitId(MapGet(nodeMap, ExplicitId(Head(stack).v).s).properties)
           = ExplicitId(Head(stack).v))
     => /\ MapHas(nodeMap', ExplicitId(Head(stack).v).s)
        /\ MapGet(nodeMap', ExplicitId(Head(stack).v).s)
             = MapGet(nodeMap, ExplicitId(Head(stack).v).s)]_vars

\* C5: the ids handed out by generateId during one build are pairwise
\* different and none of them is in the node map when it is handed out.
Claim_C5 ==
  /\ \A i, j \in 1..Len(synthesized) : synthesized[i].id = synthesized[j].id => i = j
  /\ \A i \in 1..Len(synthesized) : ~synthesized[i].present

\* C6: construction never throws, and for null, [] and {} the returned
\* graph has no nodes and no links.
Claim_C6 ==
  /\ pc # "threw"
  /\ (Done /\ (doc = Null \/ doc = JArr(<<>>) \/ doc = JObj(<<>>)))
       => (nodeMap = <<>> /\ links = <<>>)

\* the weight the data model gives to a link emitted for a property value
SpecWeight(v) ==
  CASE v.k = "obj" -> 10
    [] v.k = "str" -> IF IsUrl(v.s) THEN 5 ELSE 3
    [] v.k \in {"num", "bool"} -> 2
    [] OTHER -> 0

\* C7: every link has the weight of the kind of value it was emitted for
\* (1.0 reference or containment, 0.5 URL string, 0.3 other non-empty
\* string, 0.2 number or boolean) and no other weight; its relation is the
\* property name, or 'contains' for containment.
Theorem_C7 ==
  /\ Len(linkOrigin) = Len(links)
  /\ \A i \in LinkIdx :
       /\ links[i].weight \in {10, 5, 3, 2}
       /\ IF linkOrigin[i].contains
          THEN links[i].weight = 10 /\ links[i].type = S_contains
          ELSE /\ links[i].type = linkOrigin[i].key
               /\ links[i].weight = SpecWeight(linkOrigin[i].v)
               /\ linkOrigin[i].v.k = "obj" => Truthy(ExplicitId(linkOrigin[i].v))
               /\ linkOrigin[i].v.k = "str" => Trim(linkOrigin[i].v.s) # <<>>

\* a finished build with a link of each kind: reference, containment, URL,
\* string leaf, number leaf and boolean leaf
Witness_C7 ==
  /\ Done
  /\ \E i \in LinkIdx : IsContainsLink(i)
  /\ \E i \in LinkIdx : IsReferenceLink(i)
  /\ \E i \in LinkIdx : IsUrlLink(i)
  /\ \E i \in LinkIdx : IsStringLeafLink(i)
  /\ \E i \in LinkIdx : IsPrimitiveLeafLink(i) /\ linkOrigin[i].v.k = "num"
  /\ \E i \in LinkIdx : IsPrimitiveLeafLink(i) /\ linkOrigin[i].v.k = "bool"

\* processRelationshipValue is about to run for an absolute-URL string
UrlStep ==
  /\ pc = "run" /\ stack # <<>>
  /\ Head(stack).t = "R"
  /\ Head(stack).v.k = "str"
  /\ IsUrl(Head(stack).v.s)

LeafLinks ==
  {i \in LinkIdx : /\ ~linkOrigin[i].contains
                   /\ \/ linkOrigin[i].v.k \in {"num", "bool"}
                      \/ linkOrigin[i].v.k = "str" /\ ~IsUrl(linkOrigin[i].v.s)}

\* the ids of the entity nodes: explicit ones and synthesized ones
EntityIds ==
  {ExplicitId(data[d]).s : d \in {e \in 1..Len(data) : data[e].k = "obj"
                                                        /\ Truthy(ExplicitId(data[e]))}}
    \cup {synthesized[i].id : i \in 1..Len(synthesized)}

\* C9: leaf nodes are keyed by (sourceId, relation, value): two leaf links
\* with different triples point at different leaf nodes, and a leaf node is
\* never an entity node.
Claim_C9 ==
  /\ \A i, j \in LeafLinks :
       (\/ links[i].source # links[j].source
        \/ links[i].type # links[j].type
        \/ linkOrigin[i].v # linkOrigin[j].v)
         => links[i].target # links[j].target
  /\ \A i \in LeafLinks : links[i].target \notin EntityIds

\* the nodes that snapshot the object e as their properties
NodesOf(e) == {n \in NodeIdx : nodeMap[n].properties = e}

\* the contains links emitted for the object e
ContainsLinksOf(e) == {i \in LinkIdx : linkOrigin[i].contains /\ linkOrigin[i].v = e}

\* C10: an id-less non-empty object under a property becomes one child
\* entity: one node is registered for it and one 'contains' link of weight
\* 1.0 goes from the parent to it; {"@id":"p1","child":{"name":"c1"}} gives
\* two entity nodes and one 'contains' link from p1.  (No document of the
\* model has an id-less top-level object equal to a nested one, so the
\* nodes of a contained object are those with its properties.)
Claim_C10 ==
  Done =>
    /\ \A i \in LinkIdx :
         linkOrigin[i].contains =>
           /\ links[i].type = S_contains /\ links[i].weight = 10
           /\ Cardinality(NodesOf(linkOrigin[i].v))
                = Cardinality(ContainsLinksOf(linkOrigin[i].v))
    /\ doc = Docs[7] =>
         /\ Cardinality({n \in NodeIdx : nodeMap[n].type = JStr(S_Unknown)}) = 2
         /\ Cardinality({i \in LinkIdx : links[i].type = S_contains}) = 1
         /\ \A i \in LinkIdx : links[i].type = S_contains => links[i].source = <<"p","1">>

\* the name fields that C11 lists before the combined name
claimedNameKeys == SubSeq(nameFieldKeys, 1, 7)

RECURSIVE ClaimedFieldsFrom(_, _)
ClaimedFieldsFrom(entity, i) ==
  IF i > Len(claimedNameKeys) THEN NoName
  ELSE Prefer(NameFromField(Get(entity, claimedNameKeys[i])), ClaimedFieldsFrom(entity, i + 1))

\* the first non-empty candidate in the order of C11
ClaimedName(entity) ==
  Prefer(ClaimedFieldsFrom(entity, 1),
  Prefer(CombinedName(Get(entity, S_givenName), Get(entity, S_familyName)),
  Prefer(CombinedName(Get(entity, S_firstName), Get(entity, S_lastName)),
  Prefer(NameLikeFrom(entity.o, 1),
  Prefer(NameFromId(Or(Get(entity, S_atId), Get(entity, S_id))),
         NameFromType(Or(Get(entity, S_atType), Get(entity, S_type))))))))

\* processEntity is about to register a node for an object
EntityStep ==
  /\ pc = "run" /\ stack # <<>>
  /\ Head(stack).t = "E"
  /\ Head(stack).v.k = "obj"

\* C11: the node registered for an object carries the first non-empty
\* candidate in the order name, title, label, rdfs:label, schema:name,
\* foaf:name, dc:title, 'givenName familyName' (or 'firstName lastName'),
\* any other key containing name / title / label, the cleaned last path
\* segment of a URL id, the readable type, 'Unnamed Entity'; an object with
\* only givenName and familyName is named by both joined with a space.
Claim_C11 ==
  [][(EntityStep /\ pc' = "run")
       => \E n \in 1..Len(nodeMap') :
            /\ nodeMap'[n].properties = Head(stack).v
            /\ nodeMap'[n].name = ClaimedName(Head(stack).v).name]_vars

(***************************************************************************)
(* Properties of repeated builds                                           *)
(***************************************************************************)
\* generateId behaved as a source of fresh ids: its results are pairwise
\* different and none was registered when it was handed out
Fresh(syn) ==
  /\ \A i, j \in 1..Len(syn) : syn[i].id = syn[j].id => i = j
  /\ \A i \in 1..Len(syn) : ~syn[i].present

\* id is a result of generateId or a leaf id built from one
MadeUp(id, syn) == \E i \in 1..Len(syn) : StartsWith(id, syn[i].id)

\* the positions of the node with this id
PosOf(g, id) == {n \in 1..Len(g.nodes) : g.nodes[n].id = id}

\* the renaming that takes the n-th node of g1 to the n-th node of g2
\* changes made-up ids only and maps g1 onto g2: same type and name on
\* corresponding nodes, the same links between corresponding nodes in the
\* same order
Isomorphic(g1, syn1, g2, syn2) ==
  /\ Len(g1.nodes) = Len(g2.nodes)
  /\ Len(g1.links) = Len(g2.links)
  /\ \A n \in 1..Len(g1.nodes) :
       /\ g1.nodes[n].type = g2.nodes[n].type
       /\ g1.nodes[n].name = g2.nodes[n].name
       /\ \/ g1.nodes[n].id = g2.nodes[n].id
          \/ MadeUp(g1.nodes[n].id, syn1) /\ MadeUp(g2.nodes[n].id, syn2)
  /\ \A i \in 1..Len(g1.links) :
       /\ g1.links[i].type = g2.links[i].type
       /\ g1.links[i].weight = g2.links[i].weight
       /\ PosOf(g1, g1.links[i].source) = PosOf(g2, g2.links[i].source)
       /\ PosOf(g1, g1.links[i].target) = PosOf(g2, g2.links[i].target)

\* C12: with generateId set aside (it hands out fresh ids in both builds),
\* two builds of the same document give graphs that differ by a renaming
\* of the synthesized ids only: the same links in the same order, the same
\* type and name on corresponding nodes.
Theorem_C12 ==
  (Done /\ build > 1 /\ Fresh(firstBuild.synthesized) /\ Fresh(synthesized))
    => Isomorphic(firstBuild.graph, firstBuild.synthesized, graph, synthesized)

\* a second build that drew other ids than the first, with a contained
\* child and a value leaf hanging from it
Witness_C12 ==
  /\ Done /\ build > 1
  /\ Fresh(firstBuild.synthesized) /\ Fresh(synthesized)
  /\ synthesized # <<>>
  /\ \A i \in 1..Len(synthesized) : synthesized[i].id # firstBuild.synthesized[i].id
  /\ \E i \in LinkIdx : IsContainsLink(i) /\ MadeUp(links[i].target, synthesized)
  /\ \E i \in LinkIdx : IsStringLeafLink(i) /\ MadeUp(links[i].source, synthesized)
  /\ graph # firstBuild.graph

(***************************************************************************)
(* Properties of the analytics engine                                      *)
(***************************************************************************)
Reported == epc = "reported"

NodeCount == Len(graph.nodes)

NodeIdSet == {graph.nodes[i].id : i \in 1..NodeCount}

\* at least one link joins u and v, in either direction
Joined(u, v) ==
  \E i \in 1..Len(graph.links) :
    \/ graph.links[i].source = u /\ graph.links[i].target = v
    \/ graph.links[i].source = v /\ graph.links[i].target = u

\* v is in the neighbor set the engine keeps for u
InNeighborSet(u, v) == SetHas(Neighbors(adjacencyList, u), v)

\* the neighbor set of v
NeighborSet(v) == {w \in NodeIdSet : InNeighborSet(v, w)}

\* the entries of the report for the node v
ReportedDegree(v) == MapGet(analytics.centralityMeasures.degree, v).value
ReportedBetweenness(v) == MapGet(analytics.centralityMeasures.betweenness, v).value
ReportedCloseness(v) == MapGet(analytics.centralityMeasures.closeness, v).value

\* C13: the links are taken as an undirected simple graph: for distinct
\* nodes u and v, v is in the neighbor set of u iff u is in the neighbor set
\* of v iff some link joins them in either direction; degree[v] is the
\* number of distinct neighbors of v, however many links join them.
Theorem_C13 ==
  Reported =>
    /\ \A u, v \in NodeIdSet :
         u # v => /\ InNeighborSet(u, v) <=> InNeighborSet(v, u)
                  /\ InNeighborSet(u, v) <=> Joined(u, v)
    /\ \A v \in NodeIdSet : ReportedDegree(v) = Num(Cardinality(NeighborSet(v)))

\* two nodes joined by links in both directions, each with degree 1
Witness_C13 ==
  /\ Reported
  /\ \E u, v \in NodeIdSet :
       /\ u # v
       /\ \E i, j \in 1..Len(graph.links) :
            /\ graph.links[i].source = u /\ graph.links[i].target = v
            /\ graph.links[j].source = v /\ graph.links[j].target = u
       /\ ReportedDegree(u) = Num(1) /\ ReportedDegree(v) = Num(1)

\* the graph without the links whose source is their target
WithoutSelfLinks(g) == Graph(g.nodes, SelectSeq(g.links, LAMBDA l : l.source # l.target))

\* the report of the engine for the graph g
ReportOf(g) ==
  Report(g, buildAdjacencyList(g), NodeKeys(NodeMapFrom(<<>>, g.nodes, 1)),
         calculateDegrees(g, buildAdjacencyList(g)))

\* C14: self-links stay out of the adjacency: no node is in its own neighbor
\* set, and the degrees, the clustering and the centralities are those of
\* the graph without its self-links.
Claim_C14 ==
  /\ epc # "idle" => \A v \in NodeIdSet : ~InNeighborSet(v, v)
  /\ Reported =>
       /\ analytics.centralityMeasures = ReportOf(WithoutSelfLinks(graph)).centralityMeasures
       /\ analytics.clustering = ReportOf(WithoutSelfLinks(graph)).clustering

\* C15: calculateDensity gives 2 |E| / (N (N - 1)) for N > 1 nodes, |E|
\* being the number of links, and 0 for N <= 1.
Theorem_C15 ==
  Reported =>
    IF NodeCount > 1
    THEN Times(analytics.density, Num(NodeCount * (NodeCount - 1)))
           = Num(2 * Len(graph.links))
    ELSE analytics.density = Num(0)

\* more links than pairs of nodes: the density is above 1
Witness_C15 ==
  /\ Reported
  /\ NodeCount > 1
  /\ Less(Num(1), analytics.density)

\* C16: for the empty graph the report has density, averageDegree,
\* maxDegree, minDegree, clustering, diameter and averagePathLength 0 and
\* empty centrality maps; for one node without links it has density 0,
\* degree 0 for the node, clustering 0 and diameter 0.
Claim_C16 ==
  /\ (Reported /\ graph = NoGraph) =>
       /\ analytics.density = Num(0)
       /\ analytics.averageDegree = Num(0)
       /\ analytics.maxDegree = Num(0)
       /\ analytics.minDegree = Num(0)
       /\ analytics.clustering = Num(0)
       /\ analytics.diameter = Num(0)
       /\ analytics.averagePathLength = Num(0)
       /\ analytics.centralityMeasures.betweenness = <<>>
       /\ analytics.centralityMeasures.closeness = <<>>
       /\ analytics.centralityMeasures.degree = <<>>
  /\ (Reported /\ NodeCount = 1 /\ graph.links = <<>>) =>
       /\ analytics.density = Num(0)
       /\ ReportedDegree(graph.nodes[1].id) = Num(0)
       /\ analytics.clustering = Num(0)
       /\ analytics.diameter = Num(0)

(***************************************************************************)
(* Shortest paths of the undirected simple graph of the links              *)
(***************************************************************************)
NodeAt(i) == graph.nodes[i].id

\* u and v are different nodes joined by a link
Adjacent(u, v) == u # v /\ Joined(u, v)

\* the nodes of W and the nodes next to one of them
Step(W) == W \cup {v \in NodeIdSet : \E w \in W : Adjacent(w, v)}

\* the nodes at distance k or less from u
RECURSIVE Within(_, _)
Within(u, k) == IF k = 0 THEN {u} ELSE Step(Within(u, k - 1))

Reachable(u, v) == v \in Within(u, NodeCount)

\* the length of a shortest path from u to v, for v reachable from u
Distance(u, v) ==
  CHOOSE k \in 0..NodeCount :
    /\ v \in Within(u, k)
    /\ \A j \in 0..(k - 1) : v \notin Within(u, j)

\* the walks of d steps from s to t
RECURSIVE Walks(_, _, _)
Walks(s, t, d) ==
  IF d = 0 THEN (IF s = t THEN {<<s>>} ELSE {})
  ELSE UNION {{Append(p, t) : p \in Walks(s, w, d - 1)} :
                w \in {x \in NodeIdSet : Adjacent(x, t)}}

ShortestPaths(s, t) == Walks(s, t, Distance(s, t))

\* the fraction of these paths that pass through v
FractionThrough(paths, v) ==
  Frac(Cardinality({p \in paths : \E i \in 1..Len(p) : p[i] = v}), Cardinality(paths))

\* the fraction of the shortest paths from s to t that pass through v,
\* for a target t other than s and v that s reaches
PairDependency(s, t, v) ==
  IF s = v \/ t = v \/ s = t \/ ~Reachable(s, t) THEN Num(0)
  ELSE FractionThrough(ShortestPaths(s, t), v)

\* the sum of PairDependency over the pairs (s, t) from the c-th on
RECURSIVE DependencySum(_, _)
DependencySum(v, c) ==
  IF c > NodeCount * NodeCount THEN Num(0)
  ELSE Plus(PairDependency(NodeAt(((c - 1) \div NodeCount) + 1),
                           NodeAt(((c - 1) % NodeCount) + 1), v),
            DependencySum(v, c + 1))

PathGraph == SmallGraph(3, << <<1, 2>>, <<2, 3>> >>)
TriangleGraph == SmallGraph(3, << <<1, 2>>, <<2, 3>>, <<3, 1>> >>)

\* C17: the betweenness of v is the sum over the sources s # v of the
\* dependency of s on v (over the targets t, the fraction of the shortest
\* s-t paths through v), times 2 / ((n - 1) (n - 2)) when n > 2, and 0 for
\* every node when n <= 2; in the path graph A-B-C,
\* betweenness(B) > betweenness(A) = betweenness(C).
Theorem_C17 ==
  Reported =>
    /\ \A v \in NodeIdSet :
         ReportedBetweenness(v) =
           IF NodeCount > 2
           THEN Times(Frac(2, (NodeCount - 1) * (NodeCount - 2)), DependencySum(v, 1))
           ELSE Num(0)
    /\ graph = PathGraph =>
         /\ Less(ReportedBetweenness(NodeId(1)), ReportedBetweenness(NodeId(2)))
         /\ ReportedBetweenness(NodeId(1)) = ReportedBetweenness(NodeId(3))

\* a graph with two shortest paths between some pair of nodes and a node
\* of betweenness above 0
Witness_C17 ==
  /\ Reported
  /\ NodeCount > 2
  /\ \E s, t \in NodeIdSet : Reachable(s, t) /\ Cardinality(ShortestPaths(s, t)) > 1
  /\ \E v \in NodeIdSet : Less(Num(0), ReportedBetweenness(v))

\* the nodes other than v that v reaches
OthersReachable(v) == {w \in NodeIdSet \ {v} : Reachable(v, w)}

\* the sum of the distances from v to them, from the i-th node on
RECURSIVE DistanceSum(_, _)
DistanceSum(v, i) ==
  IF i > NodeCount THEN 0
  ELSE (IF NodeAt(i) \in OthersReachable(v) THEN Distance(v, NodeAt(i)) ELSE 0)
       + DistanceSum(v, i + 1)

\* C18: closeness[v] is the number of nodes other than v reachable from v
\* divided by the sum of their distances from v (so it looks at the
\* component of v only), and 0 when v reaches no other node; in the path
\* graph A-B-C, closeness(B) > closeness(A).
Theorem_C18 ==
  Reported =>
    /\ \A v \in NodeIdSet :
         ReportedCloseness(v) =
           IF OthersReachable(v) = {} THEN Num(0)
           ELSE Frac(Cardinality(OthersReachable(v)), DistanceSum(v, 1))
    /\ graph = PathGraph =>
         Less(ReportedCloseness(NodeId(1)), ReportedCloseness(NodeId(2)))

\* a graph with a node that reaches some but not all other nodes, at
\* different distances, and a node that reaches none
Witness_C18 ==
  /\ Reported
  /\ \E v \in NodeIdSet :
       /\ OthersReachable(v) # {}
       /\ OthersReachable(v) # NodeIdSet \ {v}
       /\ \E w \in OthersReachable(v) : Distance(v, w) > 1
  /\ \E v \in NodeIdSet : OthersReachable(v) = {} /\ ReportedCloseness(v) = Num(0)

\* the nodes with two neighbors or more
Qualifying == {v \in NodeIdSet : Cardinality(NeighborSet(v)) >= 2}

\* the pairs of neighbors of v that are neighbors of each other
AdjacentPairs(v) ==
  {pair \in SUBSET NeighborSet(v) :
     /\ Cardinality(pair) = 2
     /\ \A a, b \in pair : a # b => InNeighborSet(a, b)}

\* the number of pairs among d neighbors
PairsAmong(d) == (d * (d - 1)) \div 2

LocalCoefficient(v) ==
  Frac(Cardinality(AdjacentPairs(v)), PairsAmong(Cardinality(NeighborSet(v))))

\* the sum of the local coefficients of the qualifying nodes from the i-th on
RECURSIVE CoefficientSum(_)
CoefficientSum(i) ==
  IF i > NodeCount THEN Num(0)
  ELSE Plus(IF NodeAt(i) \in Qualifying THEN LocalCoefficient(NodeAt(i)) ELSE Num(0),
            CoefficientSum(i + 1))

\* C19: the clustering coefficient is the average, over the nodes with two
\* neighbors or more, of the number of pairs of neighbors that are
\* neighbors of each other divided by the number of pairs of neighbors;
\* nodes with fewer neighbors are left out of the average, the coefficient
\* is 0 when no node has two neighbors, and it is 1 for the triangle.
Theorem_C19 ==
  Reported =>
    /\ analytics.clustering =
         IF Qualifying = {} THEN Num(0)
         ELSE Over(CoefficientSum(1), Num(Cardinality(Qualifying)))
    /\ graph = TriangleGraph => analytics.clustering = Num(1)

\* a graph without self-links that has a node with fewer than two
\* neighbors, a node with two or more, and a coefficient above 0
Witness_C19 ==
  /\ Reported
  /\ \A v \in NodeIdSet : ~InNeighborSet(v, v)
  /\ Qualifying # {}
  /\ Qualifying # NodeIdSet
  /\ Less(Num(0), analytics.clustering)
  /\ Less(analytics.clustering, Num(1))

LongestOf(ds) == IF ds = {} THEN 0 ELSE CHOOSE m \in ds : \A d \in ds : d <= m

\* the longest of the distances between a node and a node it reaches
LongestDistance ==
  LongestOf(UNION {{Distance(u, v) : v \in Within(u, NodeCount)} : u \in NodeIdSet})

\* C20: the diameter is the longest shortest-path distance over the pairs
\* of nodes that reach each other, unreachable pairs being ignored; it is
\* 0 for a graph without links and 2 for the path graph A-B-C.
Theorem_C20 ==
  Reported =>
    /\ analytics.diameter = Num(LongestDistance)
    /\ graph.links = <<>> => analytics.diameter = Num(0)
    /\ graph = PathGraph => analytics.diameter = Num(2)

\* a graph of diameter 2 with a node that another node does not reach
Witness_C20 ==
  /\ Reported
  /\ analytics.diameter = Num(2)
  /\ \E u, v \in NodeIdSet : ~Reachable(u, v)

(***************************************************************************)
(* Termination of the build and cyclic references                          *)
(***************************************************************************)
\* the ids of the entities whose relationships are still being processed
InProgress == {stack[i].src : i \in {j \in 1..Len(stack) : stack[j].t = "R"}}

\* the ids of the nodes built so far
Registered == {nodeMap[n].id : n \in NodeIdx}

\* processRelationshipValue is about to handle a value carrying an identifier
AtReference ==
  /\ pc = "run"
  /\ stack # <<>>
  /\ Head(stack).t = "R"
  /\ ValueBranch(Head(stack).v) = "reference"

\* C21: the build terminates for every document; for a value carrying an
\* identifier a reference link is always emitted and the value is built
\* only if its id is not registered, and every id in progress is
\* registered, so an id in progress is never descended into again.
Theorem_C21 ==
  /\ [][(AtReference /\ stack' # stack) =>
          LET targetId == ExplicitId(Head(stack).v).s IN
          /\ links' = Append(links, GraphLink(Head(stack).src, targetId, Head(stack).key,
                                              WeightReference))
          /\ IF targetId \in Registered
             THEN stack' = Tail(stack)
             ELSE stack' = <<ETask(Head(stack).v, NoParent)>> \o Tail(stack)]_vars
  /\ [](InProgress \subseteq Registered)
  /\ <>(pc # "run")

\* a reference to an id that is being built is about to be handled
Witness_C21 ==
  /\ AtReference
  /\ ExplicitId(Head(stack).v).s \in InProgress

(***************************************************************************)
(* Ignored values and keys starting with '@'                               *)
(***************************************************************************)
\* null, a string that is empty after trimming, or an object without keys
Ignorable(v) ==
  \/ v.k = "null"
  \/ v.k = "str" /\ Trim(v.s) = <<>>
  \/ v.k = "obj" /\ v.o = <<>>

\* the values of the properties whose key does not start with '@', and the
\* value of '@graph'
PlainValues(o) ==
  LET plain == SelectSeq(o, LAMBDA p : ~StartsWith(p.key, <<"@">>) \/ p.key = S_atGraph)
  IN [i \in 1..Len(plain) |-> plain[i].val]

\* the objects of the document that are not below a key starting with '@'
RECURSIVE OutsideAt(_), OutsideAtFrom(_, _)
OutsideAt(v) ==
  IF v.k = "arr" THEN OutsideAtFrom(v.a, 1)
  ELSE IF v.k = "obj" THEN <<v>> \o OutsideAtFrom(PlainValues(v.o), 1)
  ELSE <<>>
OutsideAtFrom(values, i) ==
  IF i > Len(values) THEN <<>>
  ELSE OutsideAt(values[i]) \o OutsideAtFrom(values, i + 1)

\* C23: processRelationshipValue leaves nodeMap and links unchanged for a
\* value that is null, an empty or whitespace-only string or an empty
\* object; no link is emitted for a key starting with '@', and no node is
\* built from an object below such a key.
Claim_C23 ==
  [][/\ (pc = "run" /\ stack # <<>> /\ Head(stack).t = "R" /\ Ignorable(Head(stack).v))
          => (nodeMap' = nodeMap /\ links' = links)
     /\ Len(links') > Len(links)
          => ~StartsWith(linkOrigin'[Len(links')].key, <<"@">>)
     /\ (EntityStep /\ nodeMap' # nodeMap)
          => \E i \in 1..Len(OutsideAt(doc)) : OutsideAt(doc)[i] = Head(stack).v]_vars

(***************************************************************************)
(* Uniform flattening                                                      *)
(***************************************************************************)
\* C24: the builds of [[e1],[e2..en]] and of {"@graph": [e1..en]} give the
\* graph of [e1..en] up to the renaming of synthesized ids, and the
\* '@graph' wrapper is not a node.
Claim_C24 ==
  (Done /\ build > 1)
    => /\ Isomorphic(firstBuild.graph, firstBuild.synthesized, graph, synthesized)
       /\ \A n \in 1..Len(graph.nodes) : graph.nodes[n].properties # doc

(***************************************************************************)
(* Objects without identifier                                              *)
(***************************************************************************)
IsGraphWrapper(v) == Truthy(Get(v, S_atGraph)) /\ Get(v, S_atGraph).k = "arr"

\* the number of objects without identifier in v that are to become nodes:
\* '@graph' wrappers, objects below other keys starting with '@' and empty
\* objects met as property values do not count
RECURSIVE Anonymous(_, _), AnonymousFrom(_, _, _)
Anonymous(v, asValue) ==
  IF v.k = "arr" THEN AnonymousFrom(v.a, 1, asValue)
  ELSE IF v.k # "obj" THEN 0
  ELSE IF IsGraphWrapper(v) THEN Anonymous(Get(v, S_atGraph), asValue)
  ELSE (IF Truthy(ExplicitId(v)) \/ (asValue /\ v.o = <<>>) THEN 0 ELSE 1)
       + AnonymousFrom(PlainValues(v.o), 1, TRUE)
AnonymousFrom(values, i, asValue) ==
  IF i > Len(values) THEN 0
  ELSE Anonymous(values[i], asValue) + AnonymousFrom(values, i + 1, asValue)

\* C28: every object without identifier is materialized once: a finished
\* build has called generateId once per such object of the document.
Claim_C28 ==
  Done => Len(synthesized) = Anonymous(doc, FALSE)

(***************************************************************************)
(* Relationship value occurrences                                          *)
(***************************************************************************)
\* the values the relationship step is applied to for the object o: for
\* every key not starting with '@' the value, or its elements if it is an
\* array
RECURSIVE ValueElements(_, _)
ValueElements(o, i) ==
  IF i > Len(o) THEN <<>>
  ELSE (IF StartsWith(o[i].key, <<"@">>) THEN <<>>
        ELSE IF o[i].val.k = "arr" THEN o[i].val.a
        ELSE <<o[i].val>>) \o ValueElements(o, i + 1)

\* the number of those values that are not ignored, summed over the
\* objects from the i-th on
RECURSIVE LinkOccurrences(_, _)
LinkOccurrences(objs, i) ==
  IF i > Len(objs) THEN 0
  ELSE Len(SelectSeq(ValueElements(objs[i].o, 1), LAMBDA v : ~Ignorable(v)))
       + LinkOccurrences(objs, i + 1)

\* every object carries an identifier of its own, no array holds an array,
\* and the keys starting with '@' hold neither objects nor arrays
WrittenOnce(objs) ==
  /\ \A i \in 1..Len(objs) : \A p \in 1..Len(objs[i].o) :
       StartsWith(objs[i].o[p].key, <<"@">>) => objs[i].o[p].val.k \notin {"arr", "obj"}
  /\ \A i \in 1..Len(objs) : Truthy(ExplicitId(objs[i]))
  /\ \A i, j \in 1..Len(objs) : ExplicitId(objs[i]) = ExplicitId(objs[j]) => i = j
  /\ \A i \in 1..Len(objs) :
       \A e \in 1..Len(ValueElements(objs[i].o, 1)) : ValueElements(objs[i].o, 1)[e].k # "arr"

\* C29: for a document whose objects are all identified and written out
\* once, a finished build has emitted exactly one link per relationship
\* value occurrence.
Claim_C29 ==
  (Done /\ WrittenOnce(OutsideAt(doc)))
    => Len(links) = LinkOccurrences(OutsideAt(doc), 1)

(***************************************************************************)
(* Range of the density                                                    *)
(***************************************************************************)
\* C30: the reported density lies between 0 and 1, and for more than one
\* node it equals averageDegree / (N - 1).
Claim_C30 ==
  Reported =>
    /\ ~Less(analytics.density, Num(0))
    /\ ~Less(Num(1), analytics.density)
    /\ NodeCount > 1 =>
         analytics.density = Over(analytics.averageDegree, Num(NodeCount - 1))

(***************************************************************************)
(* The steps of detectCommunities                                          *)
(***************************************************************************)
InCommunities == epc = "communities"

CommunitiesReturned == epc = "communitiesReturned"

LabelIn(labels, v) == MapGet(labels, v).value

\* how many neighbors of v carry the label c
CountAround(v, c) == Cardinality({w \in NeighborSet(v) : LabelIn(communities, w) = c})

\* C22: a node is relabelled only to a community that strictly more of its
\* neighbors carry than carry its own (on a tie it keeps its label), the
\* flag of a pass is set exactly by its relabellings, and the procedure
\* returns exactly after a pass that relabelled nothing.
Claim_C22 ==
  [][InCommunities =>
       /\ \A v \in NodeIdSet :
            LabelIn(communities', v) # LabelIn(communities, v) =>
              CountAround(v, LabelIn(communities', v))
                > CountAround(v, LabelIn(communities, v))
       /\ cursor > 0 => (improved' <=> (improved \/ communities' # communities))
       /\ CommunitiesReturned' <=> (cursor = 0 /\ ~improved)]_vars

\* some node has left the community it started in
SomeRelabelled ==
  \E i \in 1..NodeCount : LabelIn(communities, graph.nodes[i].id) # i - 1

\* C26: detectCommunities returns, for every graph: no run of it goes on
\* relabelling for ever.
Theorem_C26 == <>CommunitiesReturned

Witness_C26 == CommunitiesReturned /\ SomeRelabelled

\* C27: at every step every label is the starting index of some node (0
\* to N - 1), a node without neighbors keeps its own index, and two nodes
\* with the same label are in the same connected component.
Theorem_C27 ==
  (InCommunities \/ CommunitiesReturned) =>
    \A i \in 1..NodeCount :
      /\ LabelIn(communities, graph.nodes[i].id) \in 0..(NodeCount - 1)
      /\ NeighborSet(graph.nodes[i].id) = {} =>
           LabelIn(communities, graph.nodes[i].id) = i - 1
      /\ \A w \in NodeIdSet :
           LabelIn(communities, w) = LabelIn(communities, graph.nodes[i].id) =>
             Reachable(graph.nodes[i].id, w)

\* a node alone, two nodes that share a label, and two labels in use
Witness_C27 ==
  /\ CommunitiesReturned
  /\ \E v \in NodeIdSet : NeighborSet(v) = {}
  /\ \E v, w \in NodeIdSet : v # w /\ LabelIn(communities, v) = LabelIn(communities, w)
  /\ \E v, w \in NodeIdSet : LabelIn(communities, v) # LabelIn(communities, w)

(***************************************************************************)
(* The steps of calculateEigenvectorCentrality                             *)
(***************************************************************************)
InEigenvector == epc = "eigenvector"

EigenvectorReturned == epc = "eigenvectorReturned"

ValueIn(scores, v) == MapGet(scores.values, v).value

\* the sum of the current values of the neighbors of v among the nodes
\* from the i-th on
RECURSIVE SumAroundFrom(_, _)
SumAroundFrom(v, i) ==
  IF i > NodeCount THEN 0
  ELSE (IF graph.nodes[i].id \in NeighborSet(v)
        THEN ValueIn(centrality, graph.nodes[i].id) ELSE 0)
       + SumAroundFrom(v, i + 1)

SumAround(v) == SumAroundFrom(v, 1)

\* C25: the scores start at 1 for every node; the loop body runs at most
\* 100 times; each run replaces the scores by the sums of the neighbors'
\* scores, normalized (all 0 when every sum is 0); and the call returns in
\* every case, after 100 runs without convergence with the scores of the
\* last run.
Theorem_C25 ==
  /\ [](iteration <= 100)
  /\ <>EigenvectorReturned
  /\ [][/\ (epc = "ready" /\ InEigenvector') =>
            /\ iteration' = 0
            /\ centrality'.scale = "raw"
            /\ \A v \in NodeIdSet : ValueIn(centrality', v) = 1
        /\ (InEigenvector /\ iteration < 100) =>
            /\ iteration' \in {iteration, iteration + 1}
            /\ EigenvectorReturned' <=> iteration' = iteration
            /\ (centrality.scale # "float" /\ centrality'.scale = "raw") =>
                 \A v \in NodeIdSet : SumAround(v) = 0 /\ ValueIn(centrality', v) = 0
            /\ (centrality.scale # "float" /\ centrality'.scale = "unit") =>
                 \A v, w \in NodeIdSet :
                   ValueIn(centrality', v) * SumAround(w)
                     = ValueIn(centrality', w) * SumAround(v)
            /\ (centrality.scale # "float" /\ centrality'.scale = "float") =>
                 \E v \in NodeIdSet : SumAround(v) > 0
        /\ (InEigenvector /\ iteration >= 100) =>
            /\ EigenvectorReturned'
            /\ centrality' = centrality
            /\ iteration' = iteration]_vars

\* a run that never converged: 100 turns of the loop, the scores exact
Witness_C25 == EigenvectorReturned /\ iteration = 100 /\ centrality.scale = "unit"

====
